---- MODULE Spec2Model ----
(***************************************************************************)
(* Model of the KiCad parts manager (pkgs/kicad-parts-manager/             *)
(* kicad-parts.py): the symbol property helpers get_symbol_property and    *)
(* set_symbol_property (specification Spec), and the import and delete     *)
(* commands that use them on the staging and production libraries          *)
(* (specification SpecCmd).                                                *)
(*                                                                         *)
(* Text (property keys and values, symbol names) is modelled as sequences  *)
(* of character codes, so that case folding, truthiness and pattern tests  *)
(* are computed as Python computes them.  Optional values (Python None)    *)
(* are sequences of length at most one: << >> is None and << x >> is x.    *)
(***************************************************************************)
EXTENDS Integers, Sequences, FiniteSets, TLC

VARIABLES
    lib,      \* the SymbolLib being edited in memory: its list of symbols
    prev,     \* lib as it was before the last operation
    op,       \* the last operation: its name, arguments and return value
    reps,     \* how many times in a row the last operation was called identically
    fs,       \* the files under KICAD_STAGING_LIBS and KICAD_MY_LIBS
    before,   \* fs as it was before the last command step
    cmd,      \* the last command: its name, arguments, locals and outcome
    ncmds,    \* how many commands have been started
    ed,       \* the symbol block editor: its buffers, last operation and result
    dk        \* the DigikeyClient: its token cache, the token file and the clock

vars == <<lib, prev, op, reps, fs, before, cmd, ncmds, ed, dk>>

----------------------------------------------------------------------------
(* Bounds *)

\* most properties a symbol may hold before set_symbol_property stops appending
MaxProps == 3
\* most consecutive identical calls that are counted
MaxReps == 3
\* most commands run one after another on the library files
MaxCmds == 3

----------------------------------------------------------------------------
(* Text and optional values *)

None == << >>
Some(x) == << x >>

\* str.lower() on ASCII text
Lower(s) == [i \in 1..Len(s) |-> IF s[i] \in 65..90 THEN s[i] + 32 ELSE s[i]]

K_MPN == <<77, 80, 78>>                                      \* "MPN"
K_mpn == <<109, 112, 110>>                                   \* "mpn"
K_LCSC == <<76, 67, 83, 67>>                                 \* "LCSC"
K_Value == <<86, 97, 108, 117, 101>>                         \* "Value"

V_STM32F103 == <<83, 84, 77, 51, 50, 70, 49, 48, 51>>        \* "STM32F103"
V_C2040 == <<67, 50, 48, 52, 48>>                            \* "C2040"
V_a == <<97, 45, 109, 112, 110>>                             \* "a-mpn"
V_b == <<98, 45, 109, 112, 110>>                             \* "b-mpn"
V_first == <<102, 105, 114, 115, 116>>                       \* "first"
V_second == <<115, 101, 99, 111, 110, 100>>                  \* "second"
Empty == << >>                                               \* ""

N_C2040 == <<67, 50, 48, 52, 48>>                            \* "C2040"
N_A == <<65>>                                                \* "A"
N_B == <<66>>                                                \* "B"
N_AB == <<65, 66>>                                           \* "AB"
N_A_0_1 == <<65, 95, 48, 95, 49>>                            \* "A_0_1"
N_FPA == <<70, 80, 65>>                                      \* "FPA"

L_X == <<88, 45, 74, 72>>                                    \* "X-JH"
L_Y == <<89, 45, 74, 72>>                                    \* "Y-JH"
A_X == <<88>>                                                \* "X"
T_JH == <<45, 74, 72>>                                       \* "-JH"
T_slash == <<47>>                                            \* "/"

K_footprint == <<102, 111, 111, 116, 112, 114, 105, 110, 116>> \* "footprint"
K_Footprint == <<70, 111, 111, 116, 112, 114, 105, 110, 116>> \* "Footprint"
K_Reference == <<82, 101, 102, 101, 114, 101, 110, 99, 101>> \* "Reference"
K_Digikey == <<68, 105, 103, 105, 107, 101, 121>>            \* "Digikey"
K_Stock_Digikey == <<83, 116, 111, 99, 107, 95, 68, 105, 103, 105, 107, 101, 121>> \* "Stock_Digikey"
K_Datasheet == <<68, 97, 116, 97, 115, 104, 101, 101, 116>>  \* "Datasheet"
K_ki_description == <<107, 105, 95, 100, 101, 115, 99, 114, 105, 112, 116, 105, 111, 110>> \* "ki_description"
K_Manufacturer == <<77, 97, 110, 117, 102, 97, 99, 116, 117, 114, 101, 114>> \* "Manufacturer"
K_Price_ == <<80, 114, 105, 99, 101, 95>>                    \* "Price_"
K_Mouser == <<77, 111, 117, 115, 101, 114>>                  \* "Mouser"
K_Stock_Mouser == <<83, 116, 111, 99, 107, 95, 77, 111, 117, 115, 101, 114>> \* "Stock_Mouser"

T_easyeda == <<101, 97, 115, 121, 101, 100, 97, 50, 107, 105, 99, 97, 100, 58>> \* "easyeda2kicad:"
T_staging == <<95, 115, 116, 97, 103, 105, 110, 103, 58>>    \* "_staging:"
T_https == <<104, 116, 116, 112, 115, 58>>                   \* "https:"
T_dollar == <<36>>                                           \* "$"
T_ss == <<47, 47>>                                           \* "//"

V_fpA == <<101, 97, 115, 121, 101, 100, 97, 50, 107, 105, 99, 97, 100, 58, 70, 80, 65>> \* "easyeda2kicad:FPA"
V_url == <<47, 47, 100, 46, 105, 111, 47, 97>>               \* "//d.io/a"
V_DK1 == <<68, 75, 45, 49>>                                  \* "DK-1"
V_M1 == <<77, 45, 49>>                                       \* "M-1"
V_avail == <<49, 50, 32, 73, 110, 32, 83, 116, 111, 99, 107>> \* "12 In Stock"
V_TI == <<84, 73>>                                           \* "TI"
V_ST == <<83, 84>>                                           \* "ST"
V_desc == <<73, 67>>                                         \* "IC"
N_staging == <<95, 115, 116, 97, 103, 105, 110, 103>>        \* "_staging"
N_easyeda2kicad == <<101, 97, 115, 121, 101, 100, 97, 50, 107, 105, 99, 97, 100>> \* "easyeda2kicad"
T_colon == <<58>>                                            \* ":"
A_Y == <<89>>                                                \* "Y"
A_c2040 == <<99, 50, 48, 52, 48>>                            \* "c2040"
A_X1 == <<88, 49>>                                           \* "X1"
N_B_1 == <<66, 95, 49>>                                      \* "B_1"

\* str.upper() on ASCII text
Upper(s) == [i \in 1..Len(s) |-> IF s[i] \in 97..122 THEN s[i] - 32 ELSE s[i]]

\* \d+ : a non-empty run of decimal digits
AllDigits(s) == s # << >> /\ \A i \in DOMAIN s : s[i] \in 48..57

\* re.match(r"^C\d+$", lcsc_id)
IsLcscId(s) == Len(s) >= 2 /\ s[1] = 67 /\ AllDigits(Tail(s))

\* str.startswith
StartsWith(s, t) == Len(s) >= Len(t) /\ SubSeq(s, 1, Len(t)) = t

\* "t in s" for text
Contains(s, t) == \E i \in 0..(Len(s) - Len(t)) : SubSeq(s, i + 1, i + Len(t)) = t

\* s.replace(old, new) for a non-empty old
RECURSIVE Replace(_, _, _)
Replace(s, old, new) ==
    IF Len(s) < Len(old) THEN s
    ELSE IF StartsWith(s, old)
         THEN new \o Replace(SubSeq(s, Len(old) + 1, Len(s)), old, new)
         ELSE << Head(s) >> \o Replace(Tail(s), old, new)

\* whether t is what r"\d+(_\d+)?$" matches entirely
IsUnitTail(t) ==
    \/ AllDigits(t)
    \/ \E j \in DOMAIN t :
          t[j] = 95 /\ AllDigits(SubSeq(t, 1, j - 1)) /\ AllDigits(SubSeq(t, j + 1, Len(t)))

\* re.sub(r"_\d+(_\d+)?$", "", symbol_name): the leftmost "_" from which the
\* rest of the name matches is where the name is cut
StripUnitSuffix(s) ==
    LET cuts == {i \in DOMAIN s : s[i] = 95 /\ IsUnitTail(SubSeq(s, i + 1, Len(s)))}
    IN  IF cuts = {} THEN s
        ELSE SubSeq(s, 1, (CHOOSE i \in cuts : \A j \in cuts : i <= j) - 1)

\* str(n) for an int n >= 0
RECURSIVE IntToStr(_)
IntToStr(n) == IF n < 10 THEN << 48 + n >> ELSE IntToStr(n \div 10) \o << 48 + (n % 10) >>

\* re.search(r"\d+", s): None, or the first maximal run of digits
FirstDigits(s) ==
    LET starts == {i \in DOMAIN s : s[i] \in 48..57}
    IN  IF starts = {} THEN None
        ELSE LET a == CHOOSE i \in starts : \A j \in starts : i <= j
                 ends == {e \in a..Len(s) : \A j \in a..e : s[j] \in 48..57}
                 b == CHOOSE e \in ends : \A j \in ends : j <= e
             IN  Some(SubSeq(s, a, b))

\* Python truthiness of an Optional[str]: neither None nor ""
Truthy(o) == o # << >> /\ o[1] # << >>

\* str.endswith
EndsWith(s, t) ==
    Len(s) >= Len(t) /\ SubSeq(s, Len(s) - Len(t) + 1, Len(s)) = t

\* the property names and values the helpers are called with
Keys == {K_MPN, K_mpn, K_LCSC}
Values == {V_STM32F103, Empty}

----------------------------------------------------------------------------
(* kiutils objects as the code builds and reads them *)

\* Position(X=0, Y=0, angle=0)
Position(x, y, a) == [X |-> x, Y |-> y, angle |-> a]

\* Effects(font=Font(width=w, height=h), hide=hidden)
Effects(w, h, hidden) == [font |-> [width |-> w, height |-> h], hide |-> hidden]

\* variant: the constructed property is given the id 0
NewProperty_id0(prop_name, prop_value, hidden) ==
    [key |-> prop_name,
     value |-> prop_value,
     id |-> Some(0),
     effects |-> Some(Effects("1.27", "1.27", hidden)),
     position |-> Position(0, 0, 0)]

\* the Property that set_symbol_property constructs: no id is passed, so the
\* property carries none
NewProperty(prop_name, prop_value, hidden) ==
    [key |-> prop_name,
     value |-> prop_value,
     id |-> None,
     effects |-> Some(Effects("1.27", "1.27", hidden)),
     position |-> Position(0, 0, 0)]

\* a property as read from a library file
Prop(k, v, id, eff, pos) ==
    [key |-> k, value |-> v, id |-> id, effects |-> eff, position |-> pos]

Sym(name, props, units) ==
    [entryName |-> name, properties |-> props, units |-> units]

----------------------------------------------------------------------------
(* get_symbol_property / set_symbol_property *)

\* the loop "for prop in symbol.properties: if prop.key.lower() ==
\* prop_name.lower()": index of the first hit from position i on, 0 if none
RECURSIVE FindProp(_, _, _)
FindProp(props, prop_name, i) ==
    IF i > Len(props) THEN 0
    ELSE IF Lower(props[i].key) = Lower(prop_name) THEN i
    ELSE FindProp(props, prop_name, i + 1)

\* index of the last hit, 0 if none
RECURSIVE FindLastProp(_, _, _)
FindLastProp(props, prop_name, i) ==
    IF i < 1 THEN 0
    ELSE IF Lower(props[i].key) = Lower(prop_name) THEN i
    ELSE FindLastProp(props, prop_name, i - 1)

\* variant: the loop keeps going and returns the last hit
get_symbol_property_last(symbol, prop_name) ==
    LET i == FindLastProp(symbol.properties, prop_name, Len(symbol.properties))
    IN  IF i = 0 THEN None ELSE Some(symbol.properties[i].value)

\* variant: a miss returns the empty string
get_symbol_property_empty(symbol, prop_name) ==
    LET i == FindProp(symbol.properties, prop_name, 1)
    IN  IF i = 0 THEN Some(Empty) ELSE Some(symbol.properties[i].value)

get_symbol_property(symbol, prop_name) ==
    LET i == FindProp(symbol.properties, prop_name, 1)
    IN  IF i = 0 THEN None ELSE Some(symbol.properties[i].value)

\* the update of set_symbol_property applied to the property at index i
UpdateAt(symbol, i, prop_value, hidden) ==
    LET p == symbol.properties[i]
        q == [p EXCEPT !.value = prop_value,
                       !.effects = IF p.effects # None
                                   THEN Some([p.effects[1] EXCEPT !.hide = hidden])
                                   ELSE None]
    IN  [symbol EXCEPT !.properties[i] = q]

\* variant: the last property with the key is updated
set_symbol_property_last(symbol, prop_name, prop_value, hidden) ==
    LET i == FindLastProp(symbol.properties, prop_name, Len(symbol.properties))
    IN  IF i # 0
        THEN UpdateAt(symbol, i, prop_value, hidden)
        ELSE [symbol EXCEPT !.properties =
                 Append(symbol.properties, NewProperty(prop_name, prop_value, hidden))]

\* variant: no search for an existing property, always a new one
set_symbol_property_append(symbol, prop_name, prop_value, hidden) ==
    [symbol EXCEPT !.properties =
        Append(symbol.properties, NewProperty(prop_name, prop_value, hidden))]

\* variant: the update also stores the caller's spelling of the key
set_symbol_property_rekey(symbol, prop_name, prop_value, hidden) ==
    LET i == FindProp(symbol.properties, prop_name, 1)
    IN  IF i # 0
        THEN [UpdateAt(symbol, i, prop_value, hidden) EXCEPT !.properties[i].key = prop_name]
        ELSE [symbol EXCEPT !.properties =
                 Append(symbol.properties, NewProperty(prop_name, prop_value, hidden))]

\* variant: the keys are compared as written, without .lower()
set_symbol_property_exact(symbol, prop_name, prop_value, hidden) ==
    LET hits == {i \in DOMAIN symbol.properties : symbol.properties[i].key = prop_name}
    IN  IF hits # {}
        THEN UpdateAt(symbol, CHOOSE i \in hits : \A j \in hits : i <= j, prop_value, hidden)
        ELSE [symbol EXCEPT !.properties =
                 Append(symbol.properties, NewProperty(prop_name, prop_value, hidden))]

\* variant: a new property is put in front of the existing ones
set_symbol_property_front(symbol, prop_name, prop_value, hidden) ==
    LET i == FindProp(symbol.properties, prop_name, 1)
    IN  IF i # 0
        THEN UpdateAt(symbol, i, prop_value, hidden)
        ELSE [symbol EXCEPT !.properties =
                 << NewProperty(prop_name, prop_value, hidden) >> \o symbol.properties]

set_symbol_property(symbol, prop_name, prop_value, hidden) ==
    LET i == FindProp(symbol.properties, prop_name, 1)
    IN  IF i # 0
        THEN LET p == symbol.properties[i]
                 q == [p EXCEPT !.value = prop_value,
                                !.effects = IF p.effects # None
                                            THEN Some([p.effects[1] EXCEPT !.hide = hidden])
                                            ELSE None]
             IN  [symbol EXCEPT !.properties[i] = q]
        ELSE [symbol EXCEPT !.properties =
                 Append(symbol.properties, NewProperty(prop_name, prop_value, hidden))]

----------------------------------------------------------------------------
(* The library files.  fs is a record:                                     *)
(*   staging_sym     _staging.kicad_sym: None, or the symbols it holds     *)
(*   staging_pretty  _staging.pretty: None, or its .kicad_mod files        *)
(*   staging_3d      _staging.3dshapes: None, or its files                 *)
(*   prod_sym, prod_pretty, prod_3d   the same per production library      *)
(*   common, sym_table, fp_table      KiCad's configuration, see below     *)
(* A footprint file is [stem, model]; a 3D file is [stem, ext].  The       *)
(* environment variables KICAD_STAGING_LIBS, KICAD_MY_LIBS and             *)
(* KICAD_CONFIG_DIR are set.                                               *)

\* the libraries production.glob("*-JH.kicad_sym") can find
ProdLibs == {L_X, L_Y}

\* the names a listing of the library shows: {s.entryName for s in lib.symbols}
list_symbol_names(symbols) == {symbols[i].entryName : i \in DOMAIN symbols}

Footprint(stem, model) == [stem |-> stem, model |-> model]
Shape(stem, ext) == [stem |-> stem, ext |-> ext]

----------------------------------------------------------------------------
(* cmd_import, first half: download and merge into the staging files *)

\* existing_lib.symbols after the loop "for symbol in new_lib.symbols";
\* existing_names is computed once, before the loop
RECURSIVE MergeInto(_, _, _)
MergeInto(symbols, existing_names, new_symbols) ==
    IF new_symbols = << >> THEN symbols
    ELSE LET symbol == Head(new_symbols)
             kept == IF symbol.entryName \in existing_names
                     THEN SelectSeq(symbols, LAMBDA s : s.entryName # symbol.entryName)
                     ELSE symbols
         IN  MergeInto(Append(kept, symbol), existing_names, Tail(new_symbols))

\* variant: a staged symbol is kept when the download brings its name
MergeSymbols_old(staging_sym, new_symbols) ==
    IF staging_sym # None
    THEN staging_sym[1] \o SelectSeq(new_symbols, LAMBDA n :
                                     n.entryName \notin list_symbol_names(staging_sym[1]))
    ELSE new_symbols

\* what _staging.kicad_sym holds after "Move symbol file (merge if _staging
\* already exists)"
MergeSymbols(staging_sym, new_symbols) ==
    IF staging_sym # None
    THEN MergeInto(staging_sym[1], list_symbol_names(staging_sym[1]), new_symbols)
    ELSE new_symbols

\* "for fp in easyeda_pretty.glob(...): fp.rename(staging_pretty / fp.name)":
\* the directory is created, a file of the same name is replaced
MoveFootprints(dir, moved) ==
    IF moved = None THEN dir
    ELSE LET old == IF dir = None THEN {} ELSE dir[1]
         IN  Some({f \in old : \A g \in moved[1] : g.stem # f.stem} \cup moved[1])

MoveShapes(dir, moved) ==
    IF moved = None THEN dir
    ELSE Some((IF dir = None THEN {} ELSE dir[1]) \cup moved[1])

\* update_footprint_3d_paths: every (model "...") path of every footprint of the
\* directory is rebuilt from the environment variable, the library name and the
\* old path's file name
update_footprint_3d_paths(footprint_dir, lib_env_var, lib_name) ==
    IF footprint_dir = None THEN None
    ELSE Some({[f EXCEPT !.model =
                    IF f.model = None THEN None
                    ELSE Some([env |-> lib_env_var, lib |-> lib_name,
                               file |-> f.model[1].file])] : f \in footprint_dir[1]})

\* has_symbol
HasSymbol(dl) == dl.sym # None /\ Len(dl.sym[1]) > 0

\* a command is between two of its steps
InProgress == cmd.outcome \in {"running", "loaded", "queried"}

\* cmd_import up to the merged staging files; dl is what easyeda2kicad left in
\* its output directory (sym is None when the symbol file is missing or
\* unreadable)
CmdImportMerge(lcsc_arg, dl) ==
    LET lcsc_id == Upper(lcsc_arg)
        failed == ~IsLcscId(lcsc_id) \/ ~HasSymbol(dl)
        merged == [fs EXCEPT
                     !.staging_sym = Some(MergeSymbols(fs.staging_sym, dl.sym[1])),
                     !.staging_pretty = update_footprint_3d_paths(
                                           MoveFootprints(fs.staging_pretty, dl.pretty),
                                           "KICAD_STAGING_LIBS", N_staging),
                     !.staging_3d = MoveShapes(fs.staging_3d, dl.shapes)]
    IN  /\ ~InProgress
        /\ ncmds < MaxCmds
        /\ ncmds' = ncmds + 1
        /\ fs' = IF failed THEN fs ELSE merged
        /\ before' = fs
        /\ cmd' = [name |-> "import", lcsc_id |-> lcsc_id,
                   imported_symbol_name |->
                       IF HasSymbol(dl) THEN Some(dl.sym[1][1].entryName) ELSE None,
                   symbol |-> 0, mpn |-> Empty,
                   downloaded |-> IF HasSymbol(dl) THEN dl.sym[1] ELSE << >>,
                   outcome |-> IF failed THEN "exit" ELSE "running"]
        /\ UNCHANGED <<lib, prev, op, reps, ed, dk>>

----------------------------------------------------------------------------
(* normalize_symbol_visibility *)

VISIBLE_PROPERTIES == {K_Reference, K_Value}

normalize_symbol_visibility(symbol) ==
    [symbol EXCEPT !.properties =
        [i \in 1..Len(symbol.properties) |->
            LET prop == symbol.properties[i]
                should_be_visible == prop.key \in VISIBLE_PROPERTIES
            IN  IF prop.effects # None
                THEN [prop EXCEPT !.effects = Some([prop.effects[1] EXCEPT
                                                      !.hide = ~should_be_visible])]
                ELSE prop]]

----------------------------------------------------------------------------
(* KiCad's configuration: kicad_common.json and the library tables.        *)
(* kicad_common.json is None (no file) or [valid, environment]: valid is   *)
(* whether the file parses as JSON, environment is None (no such key) or   *)
(* [vars], and vars is None (no such key, or null) or a function from      *)
(* variable names to values.  A library table is None (no file) or         *)
(* [kind, libs, closed]: its entries in order, and whether the text ends   *)
(* with ")" once trailing blanks are stripped.                             *)

\* the (lib (name ...)(type ...)(uri ...)(options "")(descr "Custom library")) entry
LibEntry(lib_name, lib_type, lib_uri) ==
    [name |-> lib_name, type |-> lib_type, uri |-> lib_uri]

\* ensure_lib_in_table: [file, ret], the table afterwards and the return value;
\* kind is "sym_lib_table" when "sym" is in the file's name, else "fp_lib_table"
ensure_lib_in_table(table_file, kind, lib_name, lib_uri) ==
    IF table_file = None
    THEN [file |-> Some([kind |-> kind,
                         libs |-> << LibEntry(lib_name, "KiCad", lib_uri) >>,
                         closed |-> TRUE]),
          ret |-> TRUE]
    ELSE IF \E i \in DOMAIN table_file[1].libs : table_file[1].libs[i].name = lib_name
         THEN [file |-> table_file, ret |-> FALSE]
    ELSE IF table_file[1].closed
         THEN [file |-> Some([table_file[1] EXCEPT
                                !.libs = Append(@, LibEntry(lib_name, "KiCad", lib_uri))]),
               ret |-> TRUE]
    ELSE [file |-> table_file, ret |-> FALSE]

\* variant: the variable is written whatever the file holds
ensure_kicad_env_var_overwrite(common_file, var_name, var_value) ==
    [file |-> Some([valid |-> TRUE,
                    environment |-> Some([vars |-> Some([n \in {var_name} |-> var_value])])]),
     ret |-> TRUE]

\* ensure_kicad_env_var: [file, ret]
ensure_kicad_env_var(common_file, var_name, var_value) ==
    IF common_file = None
    THEN [file |-> Some([valid |-> TRUE,
                         environment |-> Some([vars |-> Some([n \in {var_name} |-> var_value])])]),
          ret |-> TRUE]
    ELSE IF ~common_file[1].valid THEN [file |-> common_file, ret |-> FALSE]
    ELSE LET env == IF common_file[1].environment = None THEN [vars |-> None]
                    ELSE common_file[1].environment[1]
             vs == IF env.vars = None THEN << >> ELSE env.vars[1]
         IN  IF var_name \in DOMAIN vs THEN [file |-> common_file, ret |-> FALSE]
             ELSE [file |-> Some([common_file[1] EXCEPT !.environment =
                            Some([vars |-> Some([n \in DOMAIN vs \cup {var_name} |->
                                                   IF n = var_name THEN var_value ELSE vs[n]])])]),
                   ret |-> TRUE]

\* register_staging_libraries
register_staging_libraries(f) ==
    [f EXCEPT
       !.common = ensure_kicad_env_var(f.common, "KICAD_STAGING_LIBS", "staging").file,
       !.sym_table = ensure_lib_in_table(f.sym_table, "sym_lib_table", N_staging,
                        << "${KICAD_STAGING_LIBS}/", N_staging, ".kicad_sym" >>).file,
       !.fp_table = ensure_lib_in_table(f.fp_table, "fp_lib_table", N_staging,
                        << "${KICAD_STAGING_LIBS}/", N_staging, ".pretty" >>).file]

----------------------------------------------------------------------------
(* cmd_import, second half: find the imported symbol, write its properties *)

\* variant: the fallback takes the symbol added last
LocateSymbol_last(symbols, imported_symbol_name) ==
    LET hits == {i \in DOMAIN symbols : Truthy(imported_symbol_name)
                                         /\ symbols[i].entryName = imported_symbol_name[1]}
    IN  IF hits # {} THEN CHOOSE i \in hits : \A j \in hits : i <= j
        ELSE Len(symbols)

\* "Find the symbol we just imported": the index of the first symbol with the
\* imported name; lib.symbols[0] when the name is empty or no symbol has it
LocateSymbol(symbols, imported_symbol_name) ==
    LET hits == {i \in DOMAIN symbols : Truthy(imported_symbol_name)
                                         /\ symbols[i].entryName = imported_symbol_name[1]}
    IN  IF hits # {} THEN CHOOSE i \in hits : \A j \in hits : i <= j
        ELSE 1

\* "Fix footprint reference: easyeda2kicad:XXX -> _staging:XXX"
FixFootprint(symbol) ==
    [symbol EXCEPT !.properties =
        [i \in 1..Len(symbol.properties) |->
            LET prop == symbol.properties[i]
            IN  IF Lower(prop.key) = K_footprint /\ Contains(prop.value, T_easyeda)
                THEN [prop EXCEPT !.value = Replace(prop.value, T_easyeda, T_staging)]
                ELSE prop]]

\* a run of set_symbol_property(symbol, key, value) calls, in order
RECURSIVE ApplySets(_, _)
ApplySets(symbol, sets) ==
    IF sets = << >> THEN symbol
    ELSE ApplySets(set_symbol_property(symbol, Head(sets)[1], Head(sets)[2], TRUE), Tail(sets))

\* the (key, value) pairs written for each StandardPricing tier that has both
\* a quantity and a price
RECURSIVE PriceSets(_)
PriceSets(pricing) ==
    IF pricing = << >> THEN << >>
    ELSE (IF Head(pricing).BreakQuantity # 0 /\ Head(pricing).UnitPrice # 0
          THEN << << K_Price_ \o IntToStr(Head(pricing).BreakQuantity),
                     T_dollar \o IntToStr(Head(pricing).UnitPrice) >> >>
          ELSE << >>) \o PriceSets(Tail(pricing))

\* the (key, value) pairs written from Digikey's answer (None: no answer)
DigikeySets(dk_data) ==
    IF dk_data = None THEN << >>
    ELSE LET d == dk_data[1]
             desc == IF d.Description = None THEN None
                     ELSE IF Truthy(d.Description[1].DetailedDescription)
                          THEN d.Description[1].DetailedDescription
                          ELSE d.Description[1].ProductDescription
         IN  (IF Truthy(d.DigiKeyProductNumber)
              THEN << << K_Digikey, d.DigiKeyProductNumber[1] >> >> ELSE << >>)
          \o (IF d.QuantityAvailable # None /\ d.QuantityAvailable[1] # 0
              THEN << << K_Stock_Digikey, IntToStr(d.QuantityAvailable[1]) >> >> ELSE << >>)
          \o (IF Truthy(d.DatasheetUrl)
              THEN << << K_Datasheet, IF StartsWith(d.DatasheetUrl[1], T_ss)
                                      THEN T_https \o d.DatasheetUrl[1]
                                      ELSE d.DatasheetUrl[1] >> >> ELSE << >>)
          \o (IF Truthy(desc) THEN << << K_ki_description, desc[1] >> >> ELSE << >>)
          \o (IF Truthy(d.Manufacturer)
              THEN << << K_Manufacturer, d.Manufacturer[1] >> >> ELSE << >>)
          \o PriceSets(d.StandardPricing)

\* the writes made from Mouser's answer (None: no answer) to the symbol
MouserEnrich(symbol, m_data) ==
    IF m_data = None \/ m_data[1].Parts = << >> THEN symbol
    ELSE LET part == m_data[1].Parts[1]
             stock == IF Truthy(part.Availability)
                      THEN FirstDigits(part.Availability[1]) ELSE None
             s1 == IF Truthy(part.MouserPartNumber)
                   THEN set_symbol_property(symbol, K_Mouser, part.MouserPartNumber[1], TRUE)
                   ELSE symbol
             s2 == IF stock # None
                   THEN set_symbol_property(s1, K_Stock_Mouser, stock[1], TRUE)
                   ELSE s1
         IN  IF Truthy(part.Manufacturer) /\ ~Truthy(get_symbol_property(s2, K_Manufacturer))
             THEN set_symbol_property(s2, K_Manufacturer, part.Manufacturer[1], TRUE)
             ELSE s2

\* variant: the library is written back as soon as a property has been set
CmdImportLoad_flush ==
    /\ cmd.name = "import"
    /\ cmd.outcome = "running"
    /\ LET symbols == fs.staging_sym[1]
           i == LocateSymbol(symbols, cmd.imported_symbol_name)
           loaded == [symbols EXCEPT ![i] =
                         set_symbol_property(FixFootprint(symbols[i]), K_LCSC, cmd.lcsc_id, TRUE)]
       IN  /\ lib' = loaded
           /\ fs' = [fs EXCEPT !.staging_sym = Some(loaded)]
           /\ cmd' = [cmd EXCEPT !.outcome = "loaded", !.symbol = i,
                                  !.mpn = StripUnitSuffix(symbols[i].entryName)]
    /\ before' = fs
    /\ UNCHANGED <<prev, op, reps, ncmds, ed, dk>>

\* cmd_import from "Load symbol library with kiutils" to "Add LCSC property":
\* lib is the library in memory, cmd.symbol the index of the located symbol;
\* the symbol file is only read
CmdImportLoad ==
    /\ cmd.name = "import"
    /\ cmd.outcome = "running"
    /\ LET symbols == fs.staging_sym[1]
           i == LocateSymbol(symbols, cmd.imported_symbol_name)
       IN  IF symbols = << >>
           THEN /\ lib' = symbols
                /\ cmd' = [cmd EXCEPT !.outcome = "exit"]
           ELSE /\ lib' = [symbols EXCEPT ![i] =
                              set_symbol_property(FixFootprint(symbols[i]), K_LCSC,
                                                  cmd.lcsc_id, TRUE)]
                /\ cmd' = [cmd EXCEPT !.outcome = "loaded", !.symbol = i,
                                       !.mpn = StripUnitSuffix(symbols[i].entryName)]
    /\ before' = fs
    /\ UNCHANGED <<fs, prev, op, reps, ncmds, ed, dk>>

\* "Query Digikey": dk_data is the answer of DigikeyClient.search
CmdImportDigikey(dk_data) ==
    /\ cmd.name = "import"
    /\ cmd.outcome = "loaded"
    /\ lib' = [lib EXCEPT ![cmd.symbol] = ApplySets(lib[cmd.symbol], DigikeySets(dk_data))]
    /\ cmd' = [cmd EXCEPT !.outcome = "queried"]
    /\ UNCHANGED <<fs, before, prev, op, reps, ncmds, ed, dk>>

\* cmd_import from "Query Mouser" to the end: m_data is the answer of
\* MouserClient.search; the MPN is set, the visibility normalised, the library
\* written with lib.to_file and the staging libraries registered
CmdImportSave(m_data) ==
    /\ cmd.name = "import"
    /\ cmd.outcome = "queried"
    /\ LET s1 == MouserEnrich(lib[cmd.symbol], m_data)
           s2 == set_symbol_property(s1, K_MPN, cmd.mpn, TRUE)
           saved == [lib EXCEPT ![cmd.symbol] = normalize_symbol_visibility(s2)]
       IN  /\ lib' = saved
           /\ fs' = register_staging_libraries([fs EXCEPT !.staging_sym = Some(saved)])
    /\ cmd' = [cmd EXCEPT !.outcome = "ok"]
    /\ UNCHANGED <<before, prev, op, reps, ncmds, ed, dk>>

----------------------------------------------------------------------------
(* cmd_delete *)

\* for ext in ["wrl", "step", "WRL", "STEP", "stp", "STP"]
ModelExts == {"wrl", "step", "WRL", "STEP", "stp", "STP"}

\* variant: a symbol is dropped when its name starts with the given name
RemoveSymbol_prefix(symbols, symbol_name) ==
    SelectSeq(symbols, LAMBDA s :
        ~(Len(s.entryName) >= Len(symbol_name)
          /\ SubSeq(s.entryName, 1, Len(symbol_name)) = symbol_name))

\* variant: the block of the main symbol is cut out and its unit blocks stay
\* behind as symbols of their own
RECURSIVE RemoveSymbol_units(_, _)
RemoveSymbol_units(symbols, symbol_name) ==
    IF symbols = << >> THEN << >>
    ELSE LET s == Head(symbols)
             rest == RemoveSymbol_units(Tail(symbols), symbol_name)
         IN  IF s.entryName # symbol_name THEN << s >> \o rest
             ELSE [i \in 1..Len(s.units) |-> Sym(s.units[i], << >>, << >>)] \o rest

\* lib.symbols = [s for s in lib.symbols if s.entryName != symbol_name]
RemoveSymbol(symbols, symbol_name) ==
    SelectSeq(symbols, LAMBDA s : s.entryName # symbol_name)

\* one round of the loop "for symbol_name in symbol_names" on the library
\* l = [sym, pretty, shapes]: the symbol, its footprint and its 3D models go
DeleteOne(l, symbol_name) ==
    [sym |-> RemoveSymbol(l.sym, symbol_name),
     pretty |-> IF l.pretty = None THEN None
                ELSE Some({f \in l.pretty[1] : f.stem # symbol_name}),
     shapes |-> IF l.shapes = None THEN None
                ELSE Some({m \in l.shapes[1] :
                              ~(m.stem = symbol_name /\ m.ext \in ModelExts)})]

RECURSIVE DeleteEach(_, _)
DeleteEach(l, symbol_names) ==
    IF symbol_names = << >> THEN l
    ELSE DeleteEach(DeleteOne(l, Head(symbol_names)), Tail(symbol_names))

\* lib_files
LibFiles(f) == {L \in ProdLibs : f.prod_sym[L] # None}

\* variant: the unit blocks nested in a symbol are listed as symbols too
RECURSIVE EntryNames_units(_)
EntryNames_units(symbols) ==
    IF symbols = << >> THEN << >>
    ELSE << Head(symbols).entryName >> \o Head(symbols).units \o EntryNames_units(Tail(symbols))

\* [symbol.entryName for symbol in lib.symbols]
EntryNames(symbols) == [i \in 1..Len(symbols) |-> symbols[i].entryName]

\* f"{lib_name}/{symbol.entryName}"
Display(L, name) == L \o T_slash \o name

\* lib_filter
LibFilter(library) == IF EndsWith(library, T_JH) THEN library ELSE library \o T_JH

\* the libraries whose parts are left in all_parts after the -l filter
Scope(f, library) ==
    IF Truthy(library) THEN {L \in LibFiles(f) : L = LibFilter(library[1])}
    ELSE LibFiles(f)

\* by_library[L]: the names of to_delete that belong to library L
ByLibrary(f, library, part, selected) ==
    [L \in ProdLibs |->
        IF L \notin Scope(f, library) THEN << >>
        ELSE IF Truthy(part)
             THEN SelectSeq(EntryNames(f.prod_sym[L][1]),
                            LAMBDA n : n = part[1] \/ Display(L, n) = part[1])
             ELSE IF selected = None THEN << >>
             ELSE SelectSeq(EntryNames(f.prod_sym[L][1]),
                            LAMBDA n : Display(L, n) \in selected[1])]

\* how cmd_delete ends: "return" (nothing to do, no selection, not confirmed),
\* "exit" (sys.exit(1)) or "ok" (the deletion loop ran)
DeleteOutcome(f, library, part, selected, confirm) ==
    IF LibFiles(f) = {} THEN "return"
    ELSE IF \A L \in LibFiles(f) : f.prod_sym[L][1] = << >> THEN "return"
    ELSE IF Truthy(library) /\ \A L \in Scope(f, library) : f.prod_sym[L][1] = << >>
         THEN "exit"
    ELSE IF Truthy(part)
            /\ \A L \in ProdLibs : ByLibrary(f, library, part, selected)[L] = << >>
         THEN "exit"
    ELSE IF ~Truthy(part) /\ selected = None THEN "return"
    ELSE IF ~confirm THEN "return"
    ELSE "ok"

\* the loop "for lib_path, symbol_names in by_library.items()" with its to_file
DeleteFiles(f, by) ==
    LET after(L) == DeleteEach([sym |-> f.prod_sym[L][1],
                                pretty |-> f.prod_pretty[L],
                                shapes |-> f.prod_3d[L]], by[L])
        hit == {L \in ProdLibs : by[L] # << >>}
    IN  [f EXCEPT
           !.prod_sym = [L \in ProdLibs |->
                            IF L \in hit THEN Some(after(L).sym) ELSE f.prod_sym[L]],
           !.prod_pretty = [L \in ProdLibs |->
                            IF L \in hit THEN after(L).pretty ELSE f.prod_pretty[L]],
           !.prod_3d = [L \in ProdLibs |->
                            IF L \in hit THEN after(L).shapes ELSE f.prod_3d[L]]]

CmdDelete(library, part, selected, confirm) ==
    LET outcome == DeleteOutcome(fs, library, part, selected, confirm)
        by == ByLibrary(fs, library, part, selected)
    IN  /\ ~InProgress
        /\ ncmds < MaxCmds
        /\ ncmds' = ncmds + 1
        /\ fs' = IF outcome = "ok" THEN DeleteFiles(fs, by) ELSE fs
        /\ before' = fs
        /\ cmd' = [name |-> "delete", library |-> library, part |-> part,
                   selected |-> selected, confirm |-> confirm,
                   by_library |-> by, outcome |-> outcome]
        /\ UNCHANGED <<lib, prev, op, reps, ed, dk>>

----------------------------------------------------------------------------
(* cmd_accept *)

\* register_libraries
register_libraries(f, lib_base) ==
    [f EXCEPT
       !.common = ensure_kicad_env_var(f.common, "KICAD_MY_LIBS", "production").file,
       !.sym_table = ensure_lib_in_table(f.sym_table, "sym_lib_table", lib_base,
                        << "${KICAD_MY_LIBS}/", lib_base, ".kicad_sym" >>).file,
       !.fp_table = ensure_lib_in_table(f.fp_table, "fp_lib_table", lib_base,
                        << "${KICAD_MY_LIBS}/", lib_base, ".pretty" >>).file]

\* symbols_to_accept: with a part given, the symbols whose upper-cased name
\* contains the upper-cased pattern or whose LCSC property equals it
SymbolsToAccept(symbols, part) ==
    IF Truthy(part)
    THEN LET pattern == Upper(part[1])
         IN  SelectSeq(symbols, LAMBDA sym :
                 LET found == get_symbol_property(sym, K_LCSC)
                     lcsc == IF Truthy(found) THEN found[1] ELSE Empty
                 IN  Contains(Upper(sym.entryName), pattern) \/ Upper(lcsc) = pattern)
    ELSE symbols

\* "Update footprint reference from _staging to production library"
AcceptFootprint(symbol, lib_base) ==
    [symbol EXCEPT !.properties =
        [i \in 1..Len(symbol.properties) |->
            LET prop == symbol.properties[i]
            IN  IF Lower(prop.key) = K_footprint /\ Contains(prop.value, T_staging)
                THEN [prop EXCEPT !.value = Replace(prop.value, T_staging, lib_base \o T_colon)]
                ELSE prop]]

\* variant: an accepted symbol is put in front of the production symbols
RECURSIVE AcceptInto_front(_, _, _)
AcceptInto_front(symbols, symbols_to_accept, lib_base) ==
    IF symbols_to_accept = << >> THEN symbols
    ELSE LET symbol == normalize_symbol_visibility(
                           AcceptFootprint(Head(symbols_to_accept), lib_base))
             kept == SelectSeq(symbols, LAMBDA s : s.entryName # symbol.entryName)
         IN  AcceptInto_front(<< symbol >> \o kept, Tail(symbols_to_accept), lib_base)

\* variant: a production symbol of the same name is not removed
RECURSIVE AcceptInto_keep(_, _, _)
AcceptInto_keep(symbols, symbols_to_accept, lib_base) ==
    IF symbols_to_accept = << >> THEN symbols
    ELSE LET symbol == normalize_symbol_visibility(
                           AcceptFootprint(Head(symbols_to_accept), lib_base))
         IN  AcceptInto_keep(Append(symbols, symbol), Tail(symbols_to_accept), lib_base)

\* variant: the footprint value is cut at the library prefix
RECURSIVE AcceptInto_cut(_, _, _)
AcceptInto_cut(symbols, symbols_to_accept, lib_base) ==
    IF symbols_to_accept = << >> THEN symbols
    ELSE LET symbol == normalize_symbol_visibility(
                           AcceptFootprint(Head(symbols_to_accept), lib_base))
             cut == [symbol EXCEPT !.properties =
                        [i \in 1..Len(symbol.properties) |->
                            IF Lower(symbol.properties[i].key) = K_footprint
                            THEN [symbol.properties[i] EXCEPT !.value = lib_base \o T_colon]
                            ELSE symbol.properties[i]]]
             kept == SelectSeq(symbols, LAMBDA s : s.entryName # symbol.entryName)
         IN  AcceptInto_cut(Append(kept, cut), Tail(symbols_to_accept), lib_base)

\* prod_lib.symbols after the loop "for symbol in symbols_to_accept"
RECURSIVE AcceptInto(_, _, _)
AcceptInto(symbols, symbols_to_accept, lib_base) ==
    IF symbols_to_accept = << >> THEN symbols
    ELSE LET symbol == normalize_symbol_visibility(
                           AcceptFootprint(Head(symbols_to_accept), lib_base))
             kept == SelectSeq(symbols, LAMBDA s : s.entryName # symbol.entryName)
         IN  AcceptInto(Append(kept, symbol), Tail(symbols_to_accept), lib_base)

\* mkdir(parents=True, exist_ok=True)
Mkdir(dir) == IF dir = None THEN Some({}) ELSE dir

\* how cmd_accept ends: "exit" (sys.exit(1)) or "ok"; picked is the answer of
\* prompt_library_name, None when it exits
AcceptOutcome(f, part, library, picked) ==
    IF f.staging_sym = None THEN "exit"
    ELSE IF f.staging_sym[1] = << >> THEN "exit"
    ELSE IF SymbolsToAccept(f.staging_sym[1], part) = << >> THEN "exit"
    ELSE IF ~Truthy(library) /\ picked = None THEN "exit"
    ELSE "ok"

\* the files after cmd_accept has moved symbols_to_accept to lib_base
\* variant: the staging library keeps every symbol
Remaining_all(symbols, accepted_names) == symbols

\* "Clean up staging - remove accepted symbols"
Remaining(symbols, accepted_names) ==
    SelectSeq(symbols, LAMBDA s : s.entryName \notin accepted_names)

AcceptFiles(f, symbols_to_accept, lib_base) ==
    LET accepted_names == {symbols_to_accept[i].entryName : i \in DOMAIN symbols_to_accept}
        prod_lib == IF f.prod_sym[lib_base] # None THEN f.prod_sym[lib_base][1] ELSE << >>
        remaining == Remaining(f.staging_sym[1], accepted_names)
        moved == [f EXCEPT
                    !.prod_sym[lib_base] = Some(AcceptInto(prod_lib, symbols_to_accept, lib_base)),
                    !.prod_pretty[lib_base] =
                        update_footprint_3d_paths(
                            MoveFootprints(Mkdir(f.prod_pretty[lib_base]), f.staging_pretty),
                            "KICAD_MY_LIBS", lib_base),
                    !.prod_3d[lib_base] = MoveShapes(Mkdir(f.prod_3d[lib_base]), f.staging_3d),
                    !.staging_sym = IF remaining # << >> THEN Some(remaining) ELSE None,
                    !.staging_pretty = IF remaining # << >> /\ f.staging_pretty # None
                                       THEN Some({}) ELSE None,
                    !.staging_3d = IF remaining # << >> /\ f.staging_3d # None
                                   THEN Some({}) ELSE None]
    IN  register_libraries(moved, lib_base)

CmdAccept(part, library, picked) ==
    LET outcome == AcceptOutcome(fs, part, library, picked)
        lib_name == IF Truthy(library) THEN library[1] ELSE picked[1]
        all_symbol_names == IF fs.staging_sym = None THEN << >>
                            ELSE EntryNames(fs.staging_sym[1])
        symbols_to_accept == IF fs.staging_sym = None THEN << >>
                             ELSE SymbolsToAccept(fs.staging_sym[1], part)
    IN  /\ ~InProgress
        /\ ncmds < MaxCmds
        /\ ncmds' = ncmds + 1
        /\ fs' = IF outcome = "ok"
                 THEN AcceptFiles(fs, symbols_to_accept, lib_name \o T_JH)
                 ELSE fs
        /\ before' = fs
        /\ cmd' = [name |-> "accept", part |-> part, library |-> library,
                   all_symbol_names |-> all_symbol_names,
                   accepted_names |-> EntryNames(symbols_to_accept),
                   lib_base |-> IF outcome = "ok" THEN lib_name \o T_JH ELSE Empty,
                   outcome |-> outcome]
        /\ UNCHANGED <<lib, prev, op, reps, ed, dk>>

----------------------------------------------------------------------------
(* The symbol block editor over a buffer of text lines.  A line is a       *)
(* sequence of character codes, a buffer a sequence of lines.              *)

P_symbol == <<40, 115, 121, 109, 98, 111, 108, 32, 34>>  \* (symbol "
P_property == <<40, 112, 114, 111, 112, 101, 114, 116, 121, 32, 34>>  \* (property "
P_id == <<40, 105, 100, 32>>  \* (id 
T_at == <<41, 32, 40, 97, 116, 32, 48, 32, 48, 32, 48, 41>>  \* ) (at 0 0 0)
T_effects == <<32, 32, 32, 32, 32, 32, 40, 101, 102, 102, 101, 99, 116, 115, 32, 40, 102, 111, 110, 116, 32, 40, 115, 105, 122, 101, 32, 49, 46, 50, 55, 32, 49, 46, 50, 55, 41, 41, 32, 104, 105, 100, 101, 41>>  \*       (effects (font (size 1.27 1.27)) hide)
T_close == <<32, 32, 32, 32, 41>>  \*     )
T_indent == <<32, 32, 32, 32>>  \*     
T_qsq == <<34, 32, 34>>  \* " "
T_qid == <<34, 32, 40, 105, 100, 32>>  \* " (id 
K_New == <<78, 101, 119>>  \* New
V_x == <<120>>  \* x
V_open == <<97, 40, 98>>  \* a(b
V_quoted == <<97, 34, 98, 92>>  \* a"b\
N_Z == <<90>>  \* Z

\* a library as KiCad writes it: "A" with a property split over lines and a unit, "B", and a block named "B:1"
BufValid ==
    << <<40, 107, 105, 99, 97, 100, 95, 115, 121, 109, 98, 111, 108, 95, 108, 105, 98>>,  \* (kicad_symbol_lib
       <<32, 32, 40, 115, 121, 109, 98, 111, 108, 32, 34, 65, 34>>,  \*   (symbol "A"
       <<32, 32, 32, 32, 40, 112, 114, 111, 112, 101, 114, 116, 121, 32, 34, 86, 97, 108, 117, 101, 34, 32, 34, 65, 34, 32, 40, 105, 100, 32, 48, 41, 32, 40, 97, 116, 32, 48, 32, 48, 32, 48, 41, 41>>,  \*     (property "Value" "A" (id 0) (at 0 0 0))
       <<32, 32, 32, 32, 40, 112, 114, 111, 112, 101, 114, 116, 121, 32, 34, 77, 80, 78, 34>>,  \*     (property "MPN"
       <<32, 32, 32, 32, 32, 32, 34, 97, 45, 109, 112, 110, 34>>,  \*       "a-mpn"
       <<32, 32, 32, 32, 32, 32, 40, 105, 100, 32, 49, 41>>,  \*       (id 1)
       <<32, 32, 32, 32, 41>>,  \*     )
       <<32, 32, 32, 32, 40, 115, 121, 109, 98, 111, 108, 32, 34, 65, 95, 48, 95, 49, 34>>,  \*     (symbol "A_0_1"
       <<32, 32, 32, 32, 32, 32, 40, 112, 105, 110, 41>>,  \*       (pin)
       <<32, 32, 32, 32, 41>>,  \*     )
       <<32, 32, 41>>,  \*   )
       <<32, 32, 40, 115, 121, 109, 98, 111, 108, 32, 34, 66, 34>>,  \*   (symbol "B"
       <<32, 32, 32, 32, 40, 112, 114, 111, 112, 101, 114, 116, 121, 32, 34, 109, 112, 110, 34, 32, 34, 98, 34, 32, 40, 105, 100, 32, 50, 41, 41>>,  \*     (property "mpn" "b" (id 2))
       <<32, 32, 41>>,  \*   )
       <<32, 32, 40, 115, 121, 109, 98, 111, 108, 32, 34, 66, 58, 49, 34>>,  \*   (symbol "B:1"
       <<32, 32, 41>>,  \*   )
       <<41>> >>  \* )

\* a truncated file: the blocks of "A", of its property and of the library are never closed
BufUnbalanced ==
    << <<40, 107, 105, 99, 97, 100, 95, 115, 121, 109, 98, 111, 108, 95, 108, 105, 98>>,  \* (kicad_symbol_lib
       <<32, 32, 40, 115, 121, 109, 98, 111, 108, 32, 34, 65, 34>>,  \*   (symbol "A"
       <<32, 32, 32, 32, 40, 112, 114, 111, 112, 101, 114, 116, 121, 32, 34, 77, 80, 78, 34, 32, 34, 97, 34, 32, 40, 105, 100, 32, 49, 41>>,  \*     (property "MPN" "a" (id 1)
       <<32, 32, 40, 115, 121, 109, 98, 111, 108, 32, 34, 66, 34>>,  \*   (symbol "B"
       <<32, 32, 32, 32, 40, 112, 114, 111, 112, 101, 114, 116, 121, 32, 34, 109, 112, 110, 34, 32, 34, 98, 34, 32, 40, 105, 100, 32, 50, 41, 41>>,  \*     (property "mpn" "b" (id 2))
       <<32, 32, 41>> >>  \*   )

\* a balanced library whose last line closes the property, the symbol and the library
BufShared ==
    << <<40, 107, 105, 99, 97, 100, 95, 115, 121, 109, 98, 111, 108, 95, 108, 105, 98>>,  \* (kicad_symbol_lib
       <<32, 32, 40, 115, 121, 109, 98, 111, 108, 32, 34, 65, 34>>,  \*   (symbol "A"
       <<32, 32, 32, 32, 40, 112, 114, 111, 112, 101, 114, 116, 121, 32, 34, 77, 80, 78, 34, 32, 34, 97, 34, 32, 40, 105, 100, 32, 49, 41, 41, 41, 41>> >>  \*     (property "MPN" "a" (id 1))))

\* a production library holding "P"
BufProd ==
    << <<40, 107, 105, 99, 97, 100, 95, 115, 121, 109, 98, 111, 108, 95, 108, 105, 98>>,  \* (kicad_symbol_lib
       <<32, 32, 40, 115, 121, 109, 98, 111, 108, 32, 34, 80, 34>>,  \*   (symbol "P"
       <<32, 32, 41>>,  \*   )
       <<41>> >>  \* )

\* a production library without symbols, on one line
BufProdOneLine ==
    << <<40, 107, 105, 99, 97, 100, 95, 115, 121, 109, 98, 111, 108, 95, 108, 105, 98, 41>> >>  \* (kicad_symbol_lib)

\* str.count(c)
CountChar(s, c) == Cardinality({i \in DOMAIN s : s[i] = c})

\* what a line adds to the depth: its "(" minus its ")"
Delta(line) == CountChar(line, 40) - CountChar(line, 41)

\* the least element of a non-empty set of numbers
Least(S) == CHOOSE x \in S : \A y \in S : x <= y

\* the greatest element of a non-empty set of numbers
Greatest(S) == CHOOSE x \in S : \A y \in S : y <= x

\* the position of the first quote at or after i that is not escaped: a
\* backslash takes the character after it with it; 0 if there is none
RECURSIVE NextQuote(_, _)
NextQuote(s, i) ==
    IF i < 1 \/ i > Len(s) THEN 0
    ELSE IF s[i] = 34 THEN i
    ELSE IF s[i] = 92 THEN NextQuote(s, i + 2)
    ELSE NextQuote(s, i + 1)

\* the position of the first occurrence of t in s, 0 if there is none
Find(s, t) ==
    LET hits == {j \in 1..(Len(s) - Len(t) + 1) : SubSeq(s, j, j + Len(t) - 1) = t}
    IN  IF hits = {} THEN 0 ELSE Least(hits)

\* lines[a..b] the way a slice takes it: cut off at the end of the buffer
Slice(lines, a, b) == SubSeq(lines, a, IF b > Len(lines) THEN Len(lines) ELSE b)

\* the lines joined by newlines
RECURSIVE Join(_)
Join(lines) ==
    IF lines = << >> THEN << >>
    ELSE IF Len(lines) = 1 THEN lines[1]
    ELSE lines[1] \o << 10 >> \o Join(Tail(lines))

\* the line opens the symbol itself or a block whose name starts with "name:"
Opens(line, name) ==
    \/ Contains(line, P_symbol \o name \o << 34 >>)
    \/ Contains(line, P_symbol \o name \o << 58 >>)

\* the first line that opens the named symbol, 0 if there is none
FirstOpen(lines, name) ==
    LET hits == {i \in DOMAIN lines : Opens(lines[i], name)}
    IN  IF hits = {} THEN 0 ELSE Least(hits)

\* variant: the scan steps to the next line before it looks for the end of
\* the buffer
RECURSIVE BlockEnd_past(_, _, _)
BlockEnd_past(lines, i, depth) ==
    IF i > Len(lines) THEN i
    ELSE LET d == depth + Delta(lines[i])
         IN  IF d <= 0 THEN i ELSE BlockEnd_past(lines, i + 1, d)

\* balanced-block scanning: from the trigger line i on (depth 0 before it) the
\* depth is counted line by line; the block ends at the first line where it
\* is back at zero or below, at the last line of the buffer if there is none
RECURSIVE BlockEnd(_, _, _)
BlockEnd(lines, i, depth) ==
    LET d == depth + Delta(lines[i])
    IN  IF d <= 0 THEN i
        ELSE IF i >= Len(lines) THEN Len(lines)
        ELSE BlockEnd(lines, i + 1, d)

\* variant: the block is taken without its closing line
extract_symbol_text_open(lines, name) ==
    LET s == FirstOpen(lines, name)
    IN  IF s = 0 THEN [text |-> << >>, scans |-> {}]
        ELSE [text |-> Join(Slice(lines, s, BlockEnd(lines, s, 0) - 1)),
              scans |-> {<< s, BlockEnd(lines, s, 0) >>}]

\* extract_symbol_text: the text of the block and the scan made for it
extract_symbol_text(lines, name) ==
    LET s == FirstOpen(lines, name)
    IN  IF s = 0 THEN [text |-> << >>, scans |-> {}]
        ELSE [text |-> Join(Slice(lines, s, BlockEnd(lines, s, 0))),
              scans |-> {<< s, BlockEnd(lines, s, 0) >>}]

\* the lines of a text: it is cut at its newlines; the empty text has none
RECURSIVE Split(_)
Split(text) ==
    IF text = << >> THEN << >>
    ELSE LET nl == {i \in DOMAIN text : text[i] = 10}
         IN  IF nl = {} THEN << text >>
             ELSE IF Least(nl) = Len(text) THEN << SubSeq(text, 1, Len(text) - 1), << >> >>
             ELSE << SubSeq(text, 1, Least(nl) - 1) >>
                      \o Split(SubSeq(text, Least(nl) + 1, Len(text)))

\* remove_symbol, from line i on: every block that opens the symbol is left out
RECURSIVE RemoveBlocks(_, _, _)
RemoveBlocks(lines, name, i) ==
    IF i > Len(lines) THEN << >>
    ELSE IF Opens(lines[i], name)
         THEN RemoveBlocks(lines, name, BlockEnd(lines, i, 0) + 1)
         ELSE << lines[i] >> \o RemoveBlocks(lines, name, i + 1)

\* the scans remove_symbol makes from line i on
RECURSIVE RemoveScans(_, _, _)
RemoveScans(lines, name, i) ==
    IF i > Len(lines) THEN {}
    ELSE IF Opens(lines[i], name)
         THEN {<< i, BlockEnd(lines, i, 0) >>}
                  \cup RemoveScans(lines, name, BlockEnd(lines, i, 0) + 1)
         ELSE RemoveScans(lines, name, i + 1)

remove_symbol(lines, name) ==
    [lines |-> RemoveBlocks(lines, name, 1), scans |-> RemoveScans(lines, name, 1)]

\* the line opens a property
IsProp(line) == Contains(line, P_property)

\* where the key of a property line ends: the position of its closing quote
KeyEnd(line) == NextQuote(line, Find(line, P_property) + Len(P_property))

\* the key of a property line
KeyOf(line) ==
    LET from == Find(line, P_property) + Len(P_property)
    IN  SubSeq(line, from, IF KeyEnd(line) = 0 THEN Len(line) ELSE KeyEnd(line) - 1)

\* the first property line of the buffer whose key matches ignoring case
PropLine(lines, property_name) ==
    LET hits == {i \in DOMAIN lines :
                    IsProp(lines[i]) /\ Lower(KeyOf(lines[i])) = Lower(property_name)}
    IN  IF hits = {} THEN 0 ELSE Least(hits)

\* variant: the value is written as it is
Escape_raw(value) == value

\* the value with backslashes and quotes escaped
Escape(value) == Replace(Replace(value, << 92 >>, << 92, 92 >>), << 34 >>, << 92, 34 >>)

\* the line with its first quoted string at or after position from replaced
\* by the value; a line without one is left as it is
Rewrite(line, from, value) ==
    LET vs == NextQuote(line, from)
        ve == IF vs = 0 THEN 0 ELSE NextQuote(line, vs + 1)
    IN  IF vs = 0 THEN line
        ELSE SubSeq(line, 1, vs) \o Escape(value)
                 \o (IF ve = 0 THEN << 34 >> ELSE SubSeq(line, ve, Len(line)))

\* the value line of the property at line k rewritten: the key line itself
\* when it holds the value, else the line after it
UpdateValue(lines, k, value) ==
    IF KeyEnd(lines[k]) # 0 /\ NextQuote(lines[k], KeyEnd(lines[k]) + 1) # 0
    THEN [lines EXCEPT ![k] = Rewrite(lines[k], KeyEnd(lines[k]) + 1, value)]
    ELSE IF k < Len(lines)
         THEN [lines EXCEPT ![k + 1] = Rewrite(lines[k + 1], 1, value)]
         ELSE lines

\* the number written in decimal digits
RECURSIVE ParseInt(_)
ParseInt(digits) ==
    IF digits = << >> THEN 0
    ELSE 10 * ParseInt(SubSeq(digits, 1, Len(digits) - 1)) + (digits[Len(digits)] - 48)

\* the property ids found in the buffer
IdsOf(lines) ==
    {ParseInt(FirstDigits(SubSeq(lines[i], Find(lines[i], P_id), Len(lines[i])))[1]) :
        i \in {j \in DOMAIN lines :
                  /\ Find(lines[j], P_id) # 0
                  /\ FirstDigits(SubSeq(lines[j], Find(lines[j], P_id), Len(lines[j]))) # None}}

\* one greater than the maximum id found in the file
FreshId(lines) == IF IdsOf(lines) = {} THEN 0 ELSE Greatest(IdsOf(lines)) + 1

\* variant: the synthesized block is left open
NewBlock_open(property_name, value, id) ==
    << T_indent \o P_property \o property_name \o T_qsq \o Escape(value) \o T_qid
           \o IntToStr(id) \o T_at,
       T_effects >>

\* the synthesized property block in the default layout
NewBlock(property_name, value, id) ==
    << T_indent \o P_property \o property_name \o T_qsq \o Escape(value) \o T_qid
           \o IntToStr(id) \o T_at,
       T_effects,
       T_close >>

\* where set_property inserts a new block for the named main symbol: the
\* line after which it goes and the scans made to find it; line 0 when the
\* symbol is not found
InsertPoint(lines, symbol_name) ==
    LET opens == {i \in DOMAIN lines : Contains(lines[i], P_symbol \o symbol_name \o << 34 >>)}
        s == Least(opens)
        e == BlockEnd(lines, s, 0)
        subs == {j \in (s + 1)..e : j \in DOMAIN lines /\ Contains(lines[j], P_symbol)}
        limit == IF subs = {} THEN e ELSE Least(subs) - 1
        props == {j \in (s + 1)..limit : j \in DOMAIN lines /\ IsProp(lines[j])}
    IN  IF opens = {} THEN [line |-> 0, scans |-> {}]
        ELSE IF props = {} THEN [line |-> s, scans |-> {<< s, e >>}]
        ELSE [line |-> BlockEnd(lines, Greatest(props), 0),
              scans |-> {<< s, e >>,
                         << Greatest(props), BlockEnd(lines, Greatest(props), 0) >>}]

\* set_property: the buffer afterwards and the scans made
set_property(lines, symbol_name, property_name, value) ==
    LET k == PropLine(lines, property_name)
        at == InsertPoint(lines, symbol_name)
    IN  IF k # 0 THEN [lines |-> UpdateValue(lines, k, value), scans |-> {}]
        ELSE IF at.line = 0 THEN [lines |-> lines, scans |-> {}]
        ELSE [lines |-> Slice(lines, 1, at.line)
                           \o NewBlock(property_name, value, FreshId(lines))
                           \o Slice(lines, at.line + 1, Len(lines)),
              scans |-> at.scans]

\* the accept workflow's merge: the text goes into the content immediately
\* before its final closing parenthesis; content without one is left alone
MergeBeforeFinalParen(lines, text) ==
    LET closing == {i \in DOMAIN lines : CountChar(lines[i], 41) > 0}
        l == Greatest(closing)
        pos == Greatest({j \in DOMAIN lines[l] : lines[l][j] = 41})
        head == SubSeq(lines[l], 1, pos - 1)
        blank == \A j \in DOMAIN head : head[j] = 32
    IN  IF closing = {} \/ text = << >> THEN lines
        ELSE SubSeq(lines, 1, l - 1)
                 \o (IF blank THEN << >> ELSE << head >>)
                 \o text
                 \o << IF blank THEN lines[l] ELSE SubSeq(lines[l], pos, Len(lines[l])) >>
                 \o SubSeq(lines, l + 1, Len(lines))

\* the editor before its first operation: the staging buffer, the production
\* buffer, no operation made
NoEdit == [name |-> "none", symbol |-> Empty, key |-> Empty, value |-> Empty]

Editor(buffer, other) ==
    [buffer |-> buffer, other |-> other, prev |-> buffer, prev_other |-> other,
     op |-> NoEdit, ret |-> Empty, scans |-> {}, n |-> 0]

----------------------------------------------------------------------------
(* DigikeyClient: the OAuth2 token, cached in memory and in the token file. *)
(* The client is [token, token_expires]; the token file is None (no file)   *)
(* or [valid, access_token, expires_at]: whether the text parses as JSON    *)
(* and the two keys, None when the key is missing.  Tokens are numbered in  *)
(* the order the server issues them; time is in seconds.                    *)

\* the margin taken off a token's life
ExpiryMargin == 60

\* expires_in when the answer does not give one
DefaultExpiresIn == 3600

TokenFile(valid, access_token, expires_at) ==
    [valid |-> valid, access_token |-> access_token, expires_at |-> expires_at]

\* variant: the file's token is taken whatever its expiry
load_cached_token_any(token_file, now) ==
    IF token_file = None THEN None
    ELSE IF ~token_file[1].valid THEN None
    ELSE token_file[1].access_token

\* _load_cached_token: the file's token while time.time() < expires_at
\* (0 when the key is missing), else None
load_cached_token(token_file, now) ==
    IF token_file = None THEN None
    ELSE IF ~token_file[1].valid THEN None
    ELSE IF now < (IF token_file[1].expires_at = None THEN 0
                   ELSE token_file[1].expires_at[1])
         THEN token_file[1].access_token
         ELSE None

\* _save_token
save_token(token, expires_in, now) ==
    Some(TokenFile(TRUE, Some(token), Some(now + expires_in - ExpiryMargin)))

\* variant: the memory cache is used as long as it holds a token
FromMemory_any(c, now) == c.token # None

\* "Check memory cache"
FromMemory(c, now) == c.token # None /\ now < c.token_expires

\* get_token: [token, token_expires, file, ret, from, held], the client and
\* the file afterwards, the token returned, where it came from and the
\* expiry recorded with the token now held in memory.  resp is the server's
\* answer, None when the request fails, else [access_token, expires_in]
get_token(c, token_file, now, resp, held) ==
    LET cached == load_cached_token(token_file, now)
    IN  IF FromMemory(c, now)
        THEN [token |-> c.token, token_expires |-> c.token_expires, file |-> token_file,
              ret |-> c.token, from |-> "memory", held |-> held]
        ELSE IF cached # None
        THEN [token |-> cached, token_expires |-> c.token_expires, file |-> token_file,
              ret |-> cached, from |-> "file", held |-> token_file[1].expires_at]
        ELSE IF resp = None
        THEN [token |-> c.token, token_expires |-> c.token_expires, file |-> token_file,
              ret |-> None, from |-> "failed", held |-> held]
        ELSE LET expires_in == IF resp[1].expires_in = None THEN DefaultExpiresIn
                               ELSE resp[1].expires_in[1]
             IN  [token |-> Some(resp[1].access_token),
                  token_expires |-> now + expires_in - ExpiryMargin,
                  file |-> save_token(resp[1].access_token, expires_in, now),
                  ret |-> Some(resp[1].access_token), from |-> "network",
                  held |-> Some(now + expires_in - ExpiryMargin)]

\* DigikeyClient(), with the token file and the clock as they are
Client(token_file, now, issued) ==
    [token |-> None, token_expires |-> 0, file |-> token_file, now |-> now,
     ret |-> None, from |-> "none", at |-> now, held |-> None, issued |-> issued]

NoClient == Client(None, 0, 0)

----------------------------------------------------------------------------
(* Libraries the editor starts from *)

Visible == Some(Effects("1.27", "1.27", FALSE))
Hidden == Some(Effects("1.0", "1.0", TRUE))

\* one symbol "C2040" with LCSC = "C2040"
LibC2040 ==
    << Sym(N_C2040, << Prop(K_LCSC, V_C2040, Some(0), Hidden, Position(0, 0, 0)) >>, << >>) >>

\* two symbols that both carry MPN; "A" has the unit "A_0_1"
LibAB ==
    << Sym(N_A, << Prop(K_Value, N_A, Some(0), Visible, Position(1, 2, 0)),
                   Prop(K_MPN, V_a, Some(1), Visible, Position(0, 0, 90)) >>,
           << N_A_0_1 >>),
       Sym(N_B, << Prop(K_mpn, V_b, Some(2), None, Position(0, 0, 0)) >>, << >>) >>

\* a symbol whose file holds the same key twice in different casing
LibDup ==
    << Sym(N_A, << Prop(K_mpn, V_first, None, Hidden, Position(0, 0, 0)),
                   Prop(K_MPN, V_second, None, Visible, Position(0, 0, 0)) >>,
           << N_A_0_1 >>) >>

\* a symbol without properties
LibBare == << Sym(N_B, << >>, << >>) >>

\* a symbol whose Reference is hidden, whose Value has no effects record and
\* whose Datasheet is shown
LibShown ==
    << Sym(N_B, << Prop(K_Reference, V_a, Some(0), Hidden, Position(0, 0, 0)),
                   Prop(K_Value, N_B, Some(1), None, Position(0, 0, 0)),
                   Prop(K_Datasheet, V_url, Some(2), Visible, Position(0, 0, 0)) >>,
           << >>) >>

InitLibs == {LibC2040, LibAB, LibDup, LibBare, LibShown}

\* no file anywhere
NoFiles ==
    [staging_sym |-> None, staging_pretty |-> None, staging_3d |-> None,
     prod_sym |-> [L \in ProdLibs |-> None],
     prod_pretty |-> [L \in ProdLibs |-> None],
     prod_3d |-> [L \in ProdLibs |-> None],
     common |-> None, sym_table |-> None, fp_table |-> None]

NoCmd == [name |-> "none", outcome |-> "ok"]

\* production library X-JH: "A" (with unit "A_0_1"), "AB" and "B", the
\* footprints and 3D models of "A" and "B", and a footprint used by "AB"
ProdX ==
    << Sym(N_A, << Prop(K_Value, N_A, None, Visible, Position(0, 0, 0)),
                   Prop(K_LCSC, V_C2040, None, Hidden, Position(0, 0, 0)) >>,
           << N_A_0_1 >>),
       Sym(N_AB, << Prop(K_MPN, V_a, None, Hidden, Position(0, 0, 0)) >>, << >>),
       Sym(N_B, << >>, << >>) >>

ProdXPretty == {Footprint(N_A, None), Footprint(N_B, None), Footprint(N_FPA, None)}
ProdX3d == {Shape(N_A, "wrl"), Shape(N_A, "step"), Shape(N_B, "txt"), Shape(N_FPA, "wrl")}

\* production library Y-JH: a multi-unit "A" alone
ProdY == << Sym(N_A, << Prop(K_mpn, V_b, None, None, Position(0, 0, 0)) >>, << N_A_0_1 >>) >>

FilesXY ==
    [NoFiles EXCEPT !.prod_sym = [L \in ProdLibs |-> IF L = L_X THEN Some(ProdX) ELSE Some(ProdY)],
                    !.prod_pretty = [L \in ProdLibs |-> IF L = L_X THEN Some(ProdXPretty) ELSE None],
                    !.prod_3d = [L \in ProdLibs |-> IF L = L_X THEN Some(ProdX3d) ELSE None]]

FilesY ==
    [NoFiles EXCEPT !.prod_sym = [L \in ProdLibs |-> IF L = L_Y THEN Some(ProdY) ELSE None]]

\* a staging library that already holds "B", imported earlier
StagedB == << Sym(N_B, << Prop(K_LCSC, V_C2040, None, Hidden, Position(0, 0, 0)) >>, << >>) >>

FilesStaged ==
    [FilesY EXCEPT !.staging_sym = Some(StagedB),
                   !.common = Some([valid |-> TRUE, environment |-> None]),
                   !.sym_table = Some([kind |-> "sym_lib_table", libs |-> << >>, closed |-> TRUE])]

InitFiles == {NoFiles, FilesXY, FilesStaged}

\* what easyeda2kicad may leave in its output directory
DlA ==
    [sym |-> Some(<< Sym(N_A, << Prop(K_Value, N_A, None, Visible, Position(0, 0, 0)),
                                 Prop(K_Footprint, V_fpA, None, Visible, Position(0, 0, 0)) >>,
                         << N_A_0_1 >>) >>),
     pretty |-> Some({Footprint(N_FPA, Some([env |-> "", lib |-> N_easyeda2kicad, file |-> "FPA.wrl"]))}),
     shapes |-> Some({Shape(N_FPA, "wrl")})]

DlB1 ==
    [sym |-> Some(<< Sym(N_B_1, << Prop(K_mpn, V_b, None, None, Position(0, 0, 0)) >>, << >>) >>),
     pretty |-> None, shapes |-> None]

\* a symbol file whose only symbol has the empty name
DlNameless ==
    [sym |-> Some(<< Sym(Empty, << >>, << >>) >>), pretty |-> None, shapes |-> None]

DlFailed == [sym |-> None, pretty |-> None, shapes |-> None]

\* the runs of cmd_import: the LCSC id typed and what the download leaves
ImportRuns == {<<A_c2040, DlA>>, <<A_c2040, DlB1>>, <<A_c2040, DlNameless>>,
               <<A_c2040, DlFailed>>, <<A_X1, DlA>>}

\* what the distributors may answer
DkPart ==
    [DigiKeyProductNumber |-> Some(V_DK1),
     QuantityAvailable |-> Some(120),
     DatasheetUrl |-> Some(V_url),
     Description |-> Some([DetailedDescription |-> None, ProductDescription |-> Some(V_desc)]),
     Manufacturer |-> Some(V_TI),
     StandardPricing |-> << [BreakQuantity |-> 10, UnitPrice |-> 2],
                            [BreakQuantity |-> 0, UnitPrice |-> 1] >>]

MouserPart ==
    [MouserPartNumber |-> Some(V_M1), Availability |-> Some(V_avail),
     Manufacturer |-> Some(V_ST)]

DigikeyAnswers == {None, Some(DkPart)}
MouserAnswers == {None, Some([Parts |-> << MouserPart >>])}

----------------------------------------------------------------------------
(* Specification: the property helpers applied to a library in memory *)

NoOp == [name |-> "init", sym |-> 0, key |-> << >>, value |-> Empty,
         hidden |-> FALSE, ret |-> None]

Init ==
    /\ lib \in InitLibs
    /\ prev = lib
    /\ op = NoOp
    /\ reps = 0
    /\ fs = NoFiles
    /\ before = fs
    /\ cmd = NoCmd
    /\ ncmds = 0
    /\ ed = Editor(<< >>, << >>)
    /\ dk = NoClient

Count(call) ==
    IF [op EXCEPT !.ret = None] = call
    THEN (IF reps < MaxReps THEN reps + 1 ELSE reps)
    ELSE 1

SetProperty(i, k, v, hidden) ==
    LET call == [name |-> "set", sym |-> i, key |-> k, value |-> v,
                 hidden |-> hidden, ret |-> None]
    IN  /\ FindProp(lib[i].properties, k, 1) = 0 => Len(lib[i].properties) < MaxProps
        /\ lib' = [lib EXCEPT ![i] = set_symbol_property(lib[i], k, v, hidden)]
        /\ prev' = lib
        /\ op' = call
        /\ reps' = Count(call)
        /\ UNCHANGED <<fs, before, cmd, ncmds, ed, dk>>

GetProperty(i, k) ==
    LET call == [name |-> "get", sym |-> i, key |-> k, value |-> Empty,
                 hidden |-> FALSE, ret |-> None]
    IN  /\ op' = [call EXCEPT !.ret = get_symbol_property(lib[i], k)]
        /\ prev' = lib
        /\ reps' = Count(call)
        /\ UNCHANGED <<lib, fs, before, cmd, ncmds, ed, dk>>

NormalizeVisibility(i) ==
    LET call == [name |-> "normalize", sym |-> i, key |-> << >>, value |-> Empty,
                 hidden |-> FALSE, ret |-> None]
    IN  /\ lib' = [lib EXCEPT ![i] = normalize_symbol_visibility(lib[i])]
        /\ prev' = lib
        /\ op' = call
        /\ reps' = Count(call)
        /\ UNCHANGED <<fs, before, cmd, ncmds, ed, dk>>

Next ==
    \/ \E i \in DOMAIN lib, k \in Keys, v \in Values, hidden \in BOOLEAN :
          SetProperty(i, k, v, hidden)
    \/ \E i \in DOMAIN lib, k \in Keys : GetProperty(i, k)
    \/ \E i \in DOMAIN lib : NormalizeVisibility(i)

Spec == Init /\ [][Next]_vars

----------------------------------------------------------------------------
(* Specification: the commands run one after another on the library files *)

\* the runs of cmd_delete: -l LIBRARY, PART, the fzf selection (read only when
\* no PART is given) and the answer to "Delete n part(s)? [y/N]"
DeleteArgs(library, part, selected, confirm) ==
    [library |-> library, part |-> part, selected |-> selected, confirm |-> confirm]

DeleteRuns ==
    {DeleteArgs(None, Some(N_A), None, TRUE),
     DeleteArgs(Some(A_X), Some(N_A), None, TRUE),
     DeleteArgs(None, Some(Display(L_X, N_B)), None, TRUE),
     DeleteArgs(None, Some(N_C2040), None, TRUE),
     DeleteArgs(None, Some(N_A), None, FALSE),
     DeleteArgs(Some(L_Y), None, Some({Display(L_Y, N_A)}), TRUE),
     DeleteArgs(None, None, Some({Display(L_X, N_A), Display(L_X, N_AB)}), TRUE),
     DeleteArgs(None, None, None, TRUE)}

\* the runs of cmd_accept: PART, -l LIBRARY and the answer of the library prompt
AcceptArgs(part, library, picked) == [part |-> part, library |-> library, picked |-> picked]

AcceptRuns ==
    {AcceptArgs(None, Some(A_X), None),
     AcceptArgs(None, None, Some(A_Y)),
     AcceptArgs(Some(N_A), Some(A_X), None),
     AcceptArgs(Some(N_B), Some(A_X), None),
     AcceptArgs(Some(A_c2040), Some(A_Y), None),
     AcceptArgs(None, None, None)}

InitCmd ==
    /\ lib = << >>
    /\ prev = lib
    /\ op = NoOp
    /\ reps = 0
    /\ fs \in InitFiles
    /\ before = fs
    /\ cmd = NoCmd
    /\ ncmds = 0
    /\ ed = Editor(<< >>, << >>)
    /\ dk = NoClient

NextCmd ==
    \/ \E run \in ImportRuns : CmdImportMerge(run[1], run[2])
    \/ CmdImportLoad
    \/ \E dk_data \in DigikeyAnswers : CmdImportDigikey(dk_data)
    \/ \E m_data \in MouserAnswers : CmdImportSave(m_data)
    \/ \E a \in DeleteRuns : CmdDelete(a.library, a.part, a.selected, a.confirm)
    \/ \E a \in AcceptRuns : CmdAccept(a.part, a.library, a.picked)

SpecCmd == InitCmd /\ [][NextCmd]_vars

----------------------------------------------------------------------------
(* Specification: the symbol block editor applied to text buffers *)

MaxEdits == 3

\* the symbol names asked for: two that exist and one that does not
TextNames == {N_A, N_B, N_Z}

\* the calls of set_property: symbol, key, value
SetRuns ==
    {<< N_A, K_New, V_x >>, << N_B, K_New, V_open >>, << N_Z, K_New, V_x >>,
     << N_A, K_mpn, V_quoted >>, << N_B, K_MPN, V_x >>, << N_A, K_Value, V_open >>}

EdStep(name, symbol_name, property_name, value, buffer, other, ret, scans) ==
    /\ ed.n < MaxEdits
    /\ ed' = [buffer |-> buffer, other |-> other,
              prev |-> ed.buffer, prev_other |-> ed.other,
              op |-> [name |-> name, symbol |-> symbol_name, key |-> property_name,
                      value |-> value],
              ret |-> ret, scans |-> scans, n |-> ed.n + 1]
    /\ UNCHANGED <<lib, prev, op, reps, fs, before, cmd, ncmds, dk>>

EdSetProperty(symbol_name, property_name, value) ==
    LET r == set_property(ed.buffer, symbol_name, property_name, value)
    IN  EdStep("set_property", symbol_name, property_name, value,
               r.lines, ed.other, Empty, r.scans)

EdRemoveSymbol(name) ==
    LET r == remove_symbol(ed.buffer, name)
    IN  EdStep("remove_symbol", name, Empty, Empty, r.lines, ed.other, Empty, r.scans)

EdExtractSymbolText(name) ==
    LET r == extract_symbol_text(ed.buffer, name)
    IN  EdStep("extract_symbol_text", name, Empty, Empty, ed.buffer, ed.other, r.text, r.scans)

\* the accept workflow: the symbol's text is extracted from the staging buffer
\* and merged into the production buffer
EdAcceptMerge(name) ==
    LET r == extract_symbol_text(ed.buffer, name)
    IN  EdStep("accept", name, Empty, Empty, ed.buffer,
               MergeBeforeFinalParen(ed.other, Split(r.text)), r.text, r.scans)

InitText ==
    /\ lib = << >>
    /\ prev = lib
    /\ op = NoOp
    /\ reps = 0
    /\ fs = NoFiles
    /\ before = fs
    /\ cmd = NoCmd
    /\ ncmds = 0
    /\ ed \in {Editor(b, o) : b \in {BufValid, BufUnbalanced, BufShared, << >>},
                              o \in {BufProd, BufProdOneLine}}
    /\ dk = NoClient

NextText ==
    \/ \E run \in SetRuns : EdSetProperty(run[1], run[2], run[3])
    \/ \E name \in TextNames : EdRemoveSymbol(name)
    \/ \E name \in TextNames : EdExtractSymbolText(name)
    \/ \E name \in TextNames : EdAcceptMerge(name)

SpecText == InitText /\ [][NextText]_vars

----------------------------------------------------------------------------
(* Specification: one DigikeyClient after another asking for the token *)

MaxNow == 300
MaxTokens == 3

\* the clock steps
Steps == {30, 60}

\* the lives the server gives a token: none given, shorter than the margin,
\* and two short ones
ExpiresIn == {None, Some(30), Some(90), Some(150)}

\* the token files found at the start: no file, text that is not JSON, a
\* file without keys, and files of an earlier run
StartFiles ==
    {None,
     Some(TokenFile(FALSE, None, None)),
     Some(TokenFile(TRUE, None, None)),
     Some(TokenFile(TRUE, Some(0), None)),
     Some(TokenFile(TRUE, None, Some(120))),
     Some(TokenFile(TRUE, Some(0), Some(0))),
     Some(TokenFile(TRUE, Some(0), Some(120)))}

TokUnchanged == UNCHANGED <<lib, prev, op, reps, fs, before, cmd, ncmds, ed>>

\* get_token is called; the server, if asked, fails or issues the next token
GetToken(ok, e) ==
    LET resp == IF ok THEN Some([access_token |-> dk.issued + 1, expires_in |-> e])
                ELSE None
        r == get_token(dk, dk.file, dk.now, resp, dk.held)
    IN  /\ r.from = "network" => dk.issued < MaxTokens
        /\ dk' = [token |-> r.token, token_expires |-> r.token_expires, file |-> r.file,
                  now |-> dk.now, ret |-> r.ret, from |-> r.from, at |-> dk.now,
                  held |-> r.held,
                  issued |-> IF r.from = "network" THEN dk.issued + 1 ELSE dk.issued]
        /\ TokUnchanged

\* time passes
Tick(d) ==
    /\ dk.now + d <= MaxNow
    /\ dk' = [dk EXCEPT !.now = dk.now + d]
    /\ TokUnchanged

\* a run of the program going on at the same time gets a token of its own
\* from the server and saves it in the token file
OtherRunSaves(e) ==
    /\ dk.issued < MaxTokens
    /\ dk' = [dk EXCEPT
                !.file = save_token(dk.issued + 1,
                                    IF e = None THEN DefaultExpiresIn ELSE e[1], dk.now),
                !.issued = dk.issued + 1]
    /\ TokUnchanged

\* the next run of the program makes its own client (cmd_import)
NewClient ==
    /\ dk.token # None
    /\ dk' = Client(dk.file, dk.now, dk.issued)
    /\ TokUnchanged

InitTok ==
    /\ lib = << >>
    /\ prev = lib
    /\ op = NoOp
    /\ reps = 0
    /\ fs = NoFiles
    /\ before = fs
    /\ cmd = NoCmd
    /\ ncmds = 0
    /\ ed = Editor(<< >>, << >>)
    /\ dk \in {Client(f, 0, 0) : f \in StartFiles}

NextTok ==
    \/ \E ok \in BOOLEAN, e \in ExpiresIn : GetToken(ok, e)
    \/ \E d \in Steps : Tick(d)
    \/ \E e \in ExpiresIn : OtherRunSaves(e)
    \/ NewClient

SpecTok == InitTok /\ [][NextTok]_vars

----------------------------------------------------------------------------
(* Specification: the registration helpers applied to KiCad's configuration *)

MaxCalls == 3

CommonFile(valid, environment) == [valid |-> valid, environment |-> environment]

VarsFile(vs) == Some(CommonFile(TRUE, Some([vars |-> Some(vs)])))

\* kicad_common.json at the start: no file, text that is not JSON, no
\* "environment", no "vars" (or null), no variable, the variable already
\* set, another variable set
StartCommon ==
    {None,
     Some(CommonFile(FALSE, None)),
     Some(CommonFile(TRUE, None)),
     Some(CommonFile(TRUE, Some([vars |-> None]))),
     VarsFile(<< >>),
     VarsFile([n \in {"KICAD_STAGING_LIBS"} |-> "elsewhere"]),
     VarsFile([n \in {"KICAD_MY_LIBS"} |-> "mine"])}

Table(kind, libs, closed) == [kind |-> kind, libs |-> libs, closed |-> closed]

\* a library table at the start: no file, no entry, an empty or cut-off
\* file, another library, "_staging" already there under another uri
StartTables(kind) ==
    {None,
     Some(Table(kind, << >>, TRUE)),
     Some(Table(kind, << >>, FALSE)),
     Some(Table(kind, << LibEntry(A_X, "KiCad", << "elsewhere" >>) >>, TRUE)),
     Some(Table(kind, << LibEntry(A_X, "KiCad", << "elsewhere" >>) >>, FALSE)),
     Some(Table(kind, << LibEntry(N_staging, "Legacy", << "elsewhere" >>),
                         LibEntry(A_X, "KiCad", << "elsewhere" >>) >>, TRUE))}

CfgUnchanged == UNCHANGED <<lib, prev, op, reps, ed, dk>>

\* ensure_lib_in_table on the symbol table or the footprint table
EnsureLib(table, lib_name, lib_uri) ==
    LET r == IF table = "sym_table"
             THEN ensure_lib_in_table(fs.sym_table, "sym_lib_table", lib_name, lib_uri)
             ELSE ensure_lib_in_table(fs.fp_table, "fp_lib_table", lib_name, lib_uri)
    IN  /\ ncmds < MaxCalls
        /\ ncmds' = ncmds + 1
        /\ fs' = IF table = "sym_table" THEN [fs EXCEPT !.sym_table = r.file]
                 ELSE [fs EXCEPT !.fp_table = r.file]
        /\ before' = fs
        /\ cmd' = [name |-> "ensure_lib_in_table", table |-> table, lib_name |-> lib_name,
                   lib_uri |-> lib_uri, ret |-> r.ret, outcome |-> "ok"]
        /\ CfgUnchanged

\* ensure_kicad_env_var
EnsureEnv(var_name, var_value) ==
    LET r == ensure_kicad_env_var(fs.common, var_name, var_value)
    IN  /\ ncmds < MaxCalls
        /\ ncmds' = ncmds + 1
        /\ fs' = [fs EXCEPT !.common = r.file]
        /\ before' = fs
        /\ cmd' = [name |-> "ensure_kicad_env_var", var_name |-> var_name,
                   var_value |-> var_value, ret |-> r.ret, outcome |-> "ok"]
        /\ CfgUnchanged

\* register_staging_libraries
RegisterStaging ==
    /\ ncmds < MaxCalls
    /\ ncmds' = ncmds + 1
    /\ fs' = register_staging_libraries(fs)
    /\ before' = fs
    /\ cmd' = [name |-> "register_staging_libraries", outcome |-> "ok"]
    /\ CfgUnchanged

InitCfg ==
    /\ lib = << >>
    /\ prev = lib
    /\ op = NoOp
    /\ reps = 0
    /\ fs \in {[NoFiles EXCEPT !.common = c, !.sym_table = t, !.fp_table = u] :
                   c \in StartCommon, t \in StartTables("sym_lib_table"),
                   u \in {None, Some(Table("fp_lib_table", << >>, TRUE))}}
    /\ before = fs
    /\ cmd = NoCmd
    /\ ncmds = 0
    /\ ed = Editor(<< >>, << >>)
    /\ dk = NoClient

NextCfg ==
    \/ \E table \in {"sym_table", "fp_table"}, lib_name \in {N_staging, A_Y},
           lib_uri \in {<< "${KICAD_STAGING_LIBS}/", N_staging, ".kicad_sym" >>} :
          EnsureLib(table, lib_name, lib_uri)
    \/ \E var_name \in {"KICAD_STAGING_LIBS", "KICAD_MY_LIBS"},
           var_value \in {"staging"} : EnsureEnv(var_name, var_value)
    \/ RegisterStaging

SpecCfg == InitCfg /\ [][NextCfg]_vars

----------------------------------------------------------------------------
(* Vocabulary of the properties checked below *)

Matches(p, k) == Lower(p.key) = Lower(k)

HasKey(props, k) == \E i \in DOMAIN props : Matches(props[i], k)

\* the first property of props whose key is k ignoring case
FirstIdx(props, k) ==
    CHOOSE i \in DOMAIN props :
        Matches(props[i], k) /\ \A j \in 1..(i - 1) : ~Matches(props[j], k)

\* all properties of a library in file order
RECURSIVE AllProps(_)
AllProps(l) == IF l = << >> THEN << >> ELSE Head(l).properties \o AllProps(Tail(l))

NumericIds(l) == {AllProps(l)[i].id[1] : i \in {j \in DOMAIN AllProps(l) : AllProps(l)[j].id # None}}

\* the largest property id of the library, -1 when no property has one
MaxId(l) == IF NumericIds(l) = {} THEN -1
            ELSE CHOOSE m \in NumericIds(l) : \A n \in NumericIds(l) : n <= m

IdsUnique(l) ==
    \A i, j \in DOMAIN AllProps(l) :
        (i # j /\ AllProps(l)[i].id # None /\ AllProps(l)[j].id # None)
            => AllProps(l)[i].id # AllProps(l)[j].id

\* the last operation was set_symbol_property on a key the symbol did not have
SetNew == op.name = "set" /\ ~HasKey(prev[op.sym].properties, op.key)
\* the last operation was set_symbol_property on a key the symbol had
SetOld == op.name = "set" /\ HasKey(prev[op.sym].properties, op.key)

\* every symbol but the one operated on is as before
OthersSame ==
    /\ Len(lib) = Len(prev)
    /\ \A j \in DOMAIN lib : j # op.sym => lib[j] = prev[j]

----------------------------------------------------------------------------
(* Properties *)

\* C1: after set_symbol_property(symbol, k, v), get_symbol_property(symbol, k)
\* returns v, whether k was absent before (a property is created) or present.
C1_SetThenGet ==
    op.name = "set" => get_symbol_property(lib[op.sym], op.key) = Some(op.value)

C1_Witness ==
    /\ SetNew
    /\ Len(lib[op.sym].properties) = Len(prev[op.sym].properties) + 1
    /\ get_symbol_property(lib[op.sym], op.key) = Some(op.value)
    /\ op.value # Empty

\* C2: set_symbol_property is idempotent: after two identical calls
\* get_symbol_property returns the value, and a third identical call leaves
\* the whole library as it was.
C2_Idempotent ==
    op.name = "set" =>
        /\ reps >= 2 => get_symbol_property(lib[op.sym], op.key) = Some(op.value)
        /\ reps >= 3 => lib = prev

C2_Witness == op.name = "set" /\ reps >= 3 /\ lib = prev /\ Len(lib) = 2

\* C3 as stated: set_symbol_property on an existing key changes only the value
\* of the matched property; its key, position and visibility stay as they were.
C3_OnlyValueChanges ==
    SetOld =>
        LET i == FirstIdx(prev[op.sym].properties, op.key)
        IN  lib = [prev EXCEPT ![op.sym].properties[i].value = op.value]

\* C3 amended: set_symbol_property on an existing key changes, of the first
\* property with that key, the value and (when it has an effects record) the
\* hide flag, which becomes the hidden argument; key text, id, position, font,
\* every other property and every other symbol stay as they were.
C3_ValueAndHideChange ==
    SetOld =>
        LET ps == prev[op.sym].properties
            qs == lib[op.sym].properties
            i == FirstIdx(ps, op.key)
        IN  /\ OthersSame
            /\ lib[op.sym].entryName = prev[op.sym].entryName
            /\ lib[op.sym].units = prev[op.sym].units
            /\ Len(qs) = Len(ps)
            /\ \A j \in DOMAIN ps : j # i => qs[j] = ps[j]
            /\ qs[i].key = ps[i].key
            /\ qs[i].id = ps[i].id
            /\ qs[i].position = ps[i].position
            /\ qs[i].value = op.value
            /\ ps[i].effects = None => qs[i].effects = None
            /\ ps[i].effects # None =>
                   /\ qs[i].effects # None
                   /\ qs[i].effects[1].font = ps[i].effects[1].font
                   /\ qs[i].effects[1].hide = op.hidden

C3_Witness ==
    /\ SetOld
    /\ LET i == FirstIdx(prev[op.sym].properties, op.key)
       IN  /\ prev[op.sym].properties[i].effects # None
           /\ prev[op.sym].properties[i].effects[1].hide # op.hidden
           /\ prev[op.sym].properties[i].key # op.key
           /\ prev[op.sym].properties[i].value # op.value
           /\ lib[op.sym].properties[i].value = op.value
    /\ Len(lib) = 2

\* C6: set_symbol_property on a key the symbol lacks adds exactly one property,
\* after the symbol's last existing property and outside its units; no
\* existing property and no other symbol changes.
C6_AppendsAfterLast ==
    SetNew =>
        LET ps == prev[op.sym].properties
            qs == lib[op.sym].properties
        IN  /\ OthersSame
            /\ lib[op.sym].entryName = prev[op.sym].entryName
            /\ lib[op.sym].units = prev[op.sym].units
            /\ Len(qs) = Len(ps) + 1
            /\ \A j \in DOMAIN ps : qs[j] = ps[j]
            /\ qs[Len(qs)].key = op.key
            /\ qs[Len(qs)].value = op.value

C6_Witness ==
    /\ SetNew
    /\ Len(prev[op.sym].properties) >= 1
    /\ prev[op.sym].units # << >>
    /\ Len(lib[op.sym].properties) = Len(prev[op.sym].properties) + 1
    /\ lib[op.sym].properties[Len(lib[op.sym].properties)].key = op.key

Deleted == cmd.name = "delete" /\ cmd.outcome = "ok"

\* the names cmd_delete removed from library L
Gone(L) == {cmd.by_library[L][i] : i \in DOMAIN cmd.by_library[L]}

\* the names of the unit blocks nested in the symbols of a library
UnitNames(symbols) ==
    UNION {{symbols[i].units[j] : j \in DOMAIN symbols[i].units} : i \in DOMAIN symbols}

\* C4: after the removal of a symbol, the listing of the library's symbol names
\* does not include its name, and every other symbol (properties, units, order
\* among the remaining symbols) is as before; other libraries are untouched.
C4_RemoveLeavesOthers ==
    Deleted =>
        \A L \in ProdLibs :
            IF Gone(L) = {} THEN fs.prod_sym[L] = before.prod_sym[L]
            ELSE /\ fs.prod_sym[L] # None
                 /\ list_symbol_names(fs.prod_sym[L][1]) \cap Gone(L) = {}
                 /\ fs.prod_sym[L][1] =
                       SelectSeq(before.prod_sym[L][1], LAMBDA s : s.entryName \notin Gone(L))

C4_Witness ==
    /\ Deleted
    /\ Gone(L_X) = {N_A}
    /\ Len(before.prod_sym[L_X][1]) = 3
    /\ EntryNames(fs.prod_sym[L_X][1]) = << N_AB, N_B >>
    /\ fs.prod_sym[L_Y] = before.prod_sym[L_Y]

\* C5: removing a main symbol removes its nested units with it: no removed
\* name and no unit of a removed symbol is left in the library, and a library
\* that held only the removed symbol (with its unit) lists no name afterwards.
C5_RemoveTakesUnits ==
    Deleted =>
        \A L \in ProdLibs : Gone(L) # {} =>
            LET b == before.prod_sym[L][1]
                a == fs.prod_sym[L][1]
            IN  /\ \A i \in DOMAIN b : b[i].entryName \in Gone(L) =>
                       /\ b[i].entryName \notin list_symbol_names(a) \cup UnitNames(a)
                       /\ \A j \in DOMAIN b[i].units :
                              b[i].units[j] \notin list_symbol_names(a) \cup UnitNames(a)
                /\ list_symbol_names(b) \subseteq Gone(L) => list_symbol_names(a) = {}

C5_Witness ==
    /\ Deleted
    /\ Gone(L_Y) = {N_A}
    /\ EntryNames(before.prod_sym[L_Y][1]) = << N_A >>
    /\ before.prod_sym[L_Y][1][1].units = << N_A_0_1 >>
    /\ fs.prod_sym[L_Y] = Some(<< >>)
    /\ list_symbol_names(fs.prod_sym[L_Y][1]) = {}

\* the last command was a cmd_import that ran to its end
Imported == cmd.name = "import" /\ cmd.outcome = "ok"

\* the lookup "for s in lib.symbols: if s.entryName == imported_symbol_name"
\* cannot succeed: the name is empty or no staged symbol carries it
NotLocated ==
    \/ ~Truthy(cmd.imported_symbol_name)
    \/ cmd.imported_symbol_name[1] \notin list_symbol_names(before.staging_sym[1])

\* C8 as stated: when the named symbol cannot be located, the property writes
\* are a silent no-op: no property is inserted or changed in any symbol.
C8_NotLocatedIsNoOp ==
    (Imported /\ NotLocated) => fs.staging_sym = before.staging_sym

\* C8 amended: when the imported symbol cannot be located in the staging
\* library, the property writes are not skipped: they go to the first symbol
\* of the library (which receives the LCSC id), every other symbol is unchanged
\* and the command ends without an error.
C8_NotLocatedFallsBackToFirst ==
    (Imported /\ NotLocated) =>
        LET b == before.staging_sym[1]
            a == fs.staging_sym[1]
        IN  /\ Len(a) = Len(b)
            /\ \A j \in DOMAIN b : j # 1 => a[j] = b[j]
            /\ a[1].entryName = b[1].entryName
            /\ get_symbol_property(a[1], K_LCSC) = Some(cmd.lcsc_id)

C8_Witness ==
    /\ Imported
    /\ NotLocated
    /\ Len(before.staging_sym[1]) >= 2
    /\ before.staging_sym[1][1].entryName = N_B
    /\ fs.staging_sym[1][1] # before.staging_sym[1][1]
    /\ fs.staging_sym[1][2] = before.staging_sym[1][2]

\* the value of the first property in the whole library whose key is k
FirstInBuffer(l, k) ==
    IF HasKey(AllProps(l), k) THEN Some(AllProps(l)[FirstIdx(AllProps(l), k)].value) ELSE None

\* C9 as stated: get_symbol_property returns the value of the first property
\* of the whole library whose key matches, whichever symbol holds it.
C9_FirstInWholeBuffer ==
    op.name = "get" => op.ret = FirstInBuffer(lib, op.key)

\* C9 amended: get_symbol_property returns the value of the first property of
\* the symbol it is given whose key matches ignoring case; with two symbols
\* that both carry the key, a lookup on the second returns the second's value.
C9_FirstInSymbol ==
    op.name = "get" =>
        LET ps == lib[op.sym].properties
        IN  IF HasKey(ps, op.key)
            THEN op.ret = Some(ps[FirstIdx(ps, op.key)].value)
            ELSE op.ret = None

C9_Witness ==
    /\ op.name = "get"
    /\ op.sym = 2
    /\ HasKey(lib[1].properties, op.key)
    /\ HasKey(lib[2].properties, op.key)
    /\ op.ret = Some(lib[2].properties[FirstIdx(lib[2].properties, op.key)].value)
    /\ op.ret # FirstInBuffer(lib, op.key)

\* C10: get_symbol_property for a name that matches no property key returns
\* None, and the library is unchanged by the query.
C10_MissReturnsNone ==
    (op.name = "get" /\ ~HasKey(lib[op.sym].properties, op.key)) =>
        (op.ret = None /\ lib = prev)

C10_Witness ==
    /\ op.name = "get"
    /\ ~HasKey(AllProps(lib), op.key)
    /\ AllProps(lib) # << >>
    /\ op.ret = None

----------------------------------------------------------------------------
\* no two properties of the symbol have keys that are equal ignoring case
NoCaseDup(symbol) ==
    \A i, j \in DOMAIN symbol.properties :
        Matches(symbol.properties[i], symbol.properties[j].key) => i = j

\* C11: set_symbol_property on a symbol that holds no two keys equal ignoring
\* case leaves it so, and every property that was there keeps the key text it
\* was stored with, also when the call spells the key in another casing.  As
\* every step starts from the state the step before left, this carries over
\* to any sequence of calls.
C11_KeysFoldedCasingKept ==
    (op.name = "set" /\ NoCaseDup(prev[op.sym])) =>
        /\ NoCaseDup(lib[op.sym])
        /\ \A j \in DOMAIN prev[op.sym].properties :
               lib[op.sym].properties[j].key = prev[op.sym].properties[j].key
        /\ SetNew => lib[op.sym].properties[Len(lib[op.sym].properties)].key = op.key

\* a call spelled "MPN" has updated the property stored as "mpn"
C11_Witness ==
    /\ op.name = "set" /\ op.key = K_MPN /\ op.value = V_STM32F103
    /\ NoCaseDup(prev[op.sym])
    /\ \E j \in DOMAIN lib[op.sym].properties :
          /\ lib[op.sym].properties[j].key = K_mpn
          /\ lib[op.sym].properties[j].value = V_STM32F103
          /\ prev[op.sym].properties[j].value # V_STM32F103

----------------------------------------------------------------------------
\* cmd_import holds the library in memory and has not reached lib.to_file
Unsaved == cmd.name = "import" /\ cmd.outcome \in {"loaded", "queried"}

\* C14: while cmd_import sets properties on the library in memory, the symbol
\* file (and every other file) still holds what it held when the library was
\* loaded; the file changes only with the lib.to_file that ends the command.
C14_NoFlushBeforeSave ==
    Unsaved => fs = before

\* the Digikey number is set in memory and not in the file
C14_Witness ==
    /\ Unsaved
    /\ get_symbol_property(lib[cmd.symbol], K_Digikey) = Some(V_DK1)
    /\ get_symbol_property(lib[cmd.symbol], K_LCSC) = Some(cmd.lcsc_id)
    /\ get_symbol_property(fs.staging_sym[1][cmd.symbol], K_Digikey) = None
    /\ get_symbol_property(fs.staging_sym[1][cmd.symbol], K_LCSC) = None

----------------------------------------------------------------------------
\* the last command was a cmd_accept that got to list the staged symbols
Listed == cmd.name = "accept" /\ before.staging_sym # None

\* the names of the units nested in the symbols
AllUnitNames(symbols) ==
    UNION {{symbols[i].units[j] : j \in DOMAIN symbols[i].units} : i \in DOMAIN symbols}

\* C12: the names cmd_accept lists for the staging library are, as a set,
\* exactly the names of its top-level symbols: every top-level symbol is
\* listed, and the name of a unit nested in a symbol (A_0_1 inside A) is not.
C12_ListsMainSymbolsOnly ==
    Listed =>
        LET symbols == before.staging_sym[1]
            listed == {cmd.all_symbol_names[i] : i \in DOMAIN cmd.all_symbol_names}
            main == {symbols[i].entryName : i \in DOMAIN symbols}
        IN  /\ listed = main
            /\ \A u \in AllUnitNames(symbols) \ main : u \notin listed

\* the staging library holds "A" with its unit "A_0_1" and "A" alone is listed
C12_Witness ==
    /\ Listed
    /\ N_A_0_1 \in AllUnitNames(before.staging_sym[1])
    /\ \E i \in DOMAIN cmd.all_symbol_names : cmd.all_symbol_names[i] = N_A
    /\ \A i \in DOMAIN cmd.all_symbol_names : cmd.all_symbol_names[i] # N_A_0_1

----------------------------------------------------------------------------
\* the last command was a cmd_accept that ran to its end
Accepted == cmd.name = "accept" /\ cmd.outcome = "ok"

\* no two symbols of the library file have the same name (no file: none has)
NamesUnique(file) ==
    file # None =>
        \A i, j \in DOMAIN file[1] : file[1][i].entryName = file[1][j].entryName => i = j

ProdBefore == IF before.prod_sym[cmd.lib_base] = None THEN << >>
              ELSE before.prod_sym[cmd.lib_base][1]

\* those of them whose name is not among the accepted names
Untouched ==
    SelectSeq(ProdBefore,
              LAMBDA s : \A i \in DOMAIN cmd.accepted_names : cmd.accepted_names[i] # s.entryName)

\* C19: cmd_accept puts each accepted symbol at the end of the production
\* library: the production symbols of other names come first, unchanged and in
\* their old order, followed by the accepted symbols in the order accepted.
C19_AcceptedGoLast ==
    Accepted =>
        LET a == fs.prod_sym[cmd.lib_base][1]
            n == Len(Untouched)
        IN  /\ Len(a) = n + Len(cmd.accepted_names)
            /\ SubSeq(a, 1, n) = Untouched
            /\ \A i \in DOMAIN cmd.accepted_names : a[n + i].entryName = cmd.accepted_names[i]

\* "A" stood before other symbols of the production library and is last now
C19_Witness ==
    /\ Accepted
    /\ Len(Untouched) >= 2
    /\ Len(ProdBefore) = 3
    /\ ProdBefore[1].entryName = N_A
    /\ fs.prod_sym[cmd.lib_base][1][3].entryName = N_A
    /\ fs.prod_sym[cmd.lib_base][1][3] # ProdBefore[1]

\* the (key, value) pairs of a symbol's properties
Pairs(symbol) ==
    {<< symbol.properties[i].key, symbol.properties[i].value >> : i \in DOMAIN symbol.properties}

\* the staged symbol that cmd_accept took under the name n
StagedAs(n) ==
    LET symbols == before.staging_sym[1]
    IN  symbols[CHOOSE i \in DOMAIN symbols : symbols[i].entryName = n]

\* the production symbol of the name n after cmd_accept
ProducedAs(n) ==
    LET symbols == fs.prod_sym[cmd.lib_base][1]
    IN  symbols[CHOOSE i \in DOMAIN symbols : symbols[i].entryName = n]

\* cmd_accept created the production library
IntoEmpty == Accepted /\ before.prod_sym[cmd.lib_base] = None

\* C18 as stated: a symbol taken from the staging library and put into an
\* empty library has exactly the (key, value) pairs it had in staging.
C18_SamePairs ==
    IntoEmpty =>
        \A i \in DOMAIN cmd.accepted_names :
            Pairs(ProducedAs(cmd.accepted_names[i])) = Pairs(StagedAs(cmd.accepted_names[i]))

\* C18 amended: a symbol taken from the staging library and put into an empty
\* production library has the same property keys in the same order and the
\* same values, except that the value of a footprint property that names the
\* "_staging:" library names the production library instead.
C18_SamePairsButFootprint ==
    IntoEmpty =>
        \A i \in DOMAIN cmd.accepted_names :
            LET old == StagedAs(cmd.accepted_names[i]).properties
                new == ProducedAs(cmd.accepted_names[i]).properties
            IN  /\ Len(new) = Len(old)
                /\ \A j \in DOMAIN old :
                      /\ new[j].key = old[j].key
                      /\ new[j].value =
                            IF Lower(old[j].key) = K_footprint
                            THEN Replace(old[j].value, T_staging, cmd.lib_base \o T_colon)
                            ELSE old[j].value

\* a symbol with a "_staging:" footprint and other properties went into a new
\* library
C18_Witness ==
    /\ IntoEmpty
    /\ \E i \in DOMAIN cmd.accepted_names :
          LET old == StagedAs(cmd.accepted_names[i]).properties
              new == ProducedAs(cmd.accepted_names[i]).properties
          IN  /\ Len(old) >= 3
              /\ \E j \in DOMAIN old : /\ Lower(old[j].key) = K_footprint
                                        /\ new[j].value # old[j].value
              /\ \E j \in DOMAIN old : /\ old[j].key = K_LCSC
                                        /\ new[j].value = old[j].value

----------------------------------------------------------------------------
\* the depth the lines a..b add up to
RECURSIVE SumDelta(_, _, _)
SumDelta(lines, a, b) == IF a > b THEN 0 ELSE Delta(lines[a]) + SumDelta(lines, a + 1, b)

\* the cumulative parenthesis depth at the end of the buffer
DepthAtEnd(lines) == SumDelta(lines, 1, Len(lines))

\* the editor has made an operation on buffers whose depth was zero at the end
FromBalanced ==
    /\ ed.op.name # "none"
    /\ DepthAtEnd(ed.prev) = 0
    /\ DepthAtEnd(ed.prev_other) = 0

Extracted == ed.op.name = "extract_symbol_text"

\* the lines of the buffer, as it was, that open the symbol asked for
Triggers == {i \in DOMAIN ed.prev : Opens(ed.prev[i], ed.op.symbol)}

\* the lines from the first trigger on where the running depth is zero or below
Closings ==
    {e \in Least(Triggers)..Len(ed.prev) : SumDelta(ed.prev, Least(Triggers), e) <= 0}

\* C17: extract_symbol_text leaves the buffers as they are and returns the
\* lines from the first line that opens the symbol (or a "name:" block) to the
\* first line where the running depth is back at zero or below, nested blocks
\* included; it returns the empty string when no line opens the symbol.
C17_ExtractReturnsBlock ==
    Extracted =>
        /\ ed.buffer = ed.prev
        /\ ed.other = ed.prev_other
        /\ Triggers = {} => ed.ret = Empty
        /\ (Triggers # {} /\ Closings # {}) =>
               ed.ret = Join(SubSeq(ed.prev, Least(Triggers), Least(Closings)))

\* the block of "A" was returned with the block of its unit "A_0_1" in it
C17_Witness ==
    /\ Extracted
    /\ ed.op.symbol = N_A
    /\ Triggers # {}
    /\ Closings # {}
    /\ Least(Closings) > Least(Triggers) + 3
    /\ Contains(ed.ret, P_symbol \o N_A_0_1)
    /\ ed.ret = Join(SubSeq(ed.prev, Least(Triggers), Least(Closings)))

----------------------------------------------------------------------------
\* C27: get_token returns a token from the memory cache or the file cache
\* only while the time of the call is strictly before the expiry recorded
\* with that token, and the expiry the client keeps in memory is never later
\* than the expiry recorded with the token it holds.
C27_NoExpiredToken ==
    /\ dk.from \in {"memory", "file"} =>
           (dk.ret # None /\ dk.held # None /\ dk.at < dk.held[1])
    /\ dk.token # None => (dk.held # None /\ dk.token_expires <= dk.held[1])

\* a client whose token had run out took a later token from the file that
\* another client had written
C27_Witness ==
    /\ dk.from = "file"
    /\ dk.issued >= 2
    /\ dk.token_expires > 0
    /\ dk.token_expires <= dk.at
    /\ dk.at < dk.held[1]

----------------------------------------------------------------------------
\* a property is shown unless its effects record says hide
IsVisible(prop) == prop.effects = None \/ ~prop.effects[1].hide

\* the last operation was normalize_symbol_visibility
Normalized == op.name = "normalize"

\* C21: after normalize_symbol_visibility(symbol) a property of the symbol is
\* visible if and only if its key is exactly "Reference" or "Value",
\* whatever it was before and whether or not it has an effects record.
C21_OnlyReferenceAndValueShown ==
    Normalized =>
        \A i \in DOMAIN lib[op.sym].properties :
            IsVisible(lib[op.sym].properties[i])
                <=> lib[op.sym].properties[i].key \in VISIBLE_PROPERTIES

----------------------------------------------------------------------------
\* the last call was ensure_lib_in_table
EnsuredLib == cmd.name = "ensure_lib_in_table"

\* the table the call was made on, in the files f
TableOf(f) == IF cmd.table = "sym_table" THEN f.sym_table ELSE f.fp_table

\* the entries of a table file
LibsOf(table_file) == IF table_file = None THEN << >> ELSE table_file[1].libs

\* how many entries of the table carry the name
CountLib(table_file, lib_name) ==
    Cardinality({i \in DOMAIN LibsOf(table_file) : LibsOf(table_file)[i].name = lib_name})

\* C22: ensure_lib_in_table returns True exactly when the call added an
\* entry for the name; afterwards the table holds an entry for the name; a
\* call on a table that holds the name returns False, leaves the file as it
\* was and adds no second entry; the entries the table had are preserved.
C22_EnsuresLibOnce ==
    EnsuredLib =>
        LET old == TableOf(before)
            new == TableOf(fs)
        IN  /\ cmd.ret <=> CountLib(new, cmd.lib_name) = CountLib(old, cmd.lib_name) + 1
            /\ CountLib(new, cmd.lib_name) >= 1
            /\ CountLib(old, cmd.lib_name) >= 1 => (~cmd.ret /\ new = old)
            /\ SubSeq(LibsOf(new), 1, Len(LibsOf(old))) = LibsOf(old)
            /\ Len(LibsOf(new)) >= Len(LibsOf(old))

\* the last call was ensure_kicad_env_var
EnsuredEnv == cmd.name = "ensure_kicad_env_var"

\* environment.vars of kicad_common.json, empty when there is none
VarsOf(common_file) ==
    IF common_file = None THEN << >>
    ELSE IF common_file[1].environment = None THEN << >>
    ELSE IF common_file[1].environment[1].vars = None THEN << >>
    ELSE common_file[1].environment[1].vars[1]

\* the variable is a key afterwards, True was returned exactly when the call
\* added it, and a value stored before is the value stored after
EnvEnsured ==
    /\ cmd.var_name \in DOMAIN VarsOf(fs.common)
    /\ cmd.ret <=> cmd.var_name \notin DOMAIN VarsOf(before.common)
    /\ \A n \in DOMAIN VarsOf(before.common) :
           n \in DOMAIN VarsOf(fs.common) /\ VarsOf(fs.common)[n] = VarsOf(before.common)[n]

\* kicad_common.json was there and could not be parsed
Unparsable == before.common # None /\ ~before.common[1].valid

----------------------------------------------------------------------------
\* the staged symbols before and after the command
StagedBefore == IF before.staging_sym = None THEN << >> ELSE before.staging_sym[1]
StagedAfter == IF fs.staging_sym = None THEN << >> ELSE fs.staging_sym[1]

\* the names cmd_accept took
AcceptedNames == {cmd.accepted_names[i] : i \in DOMAIN cmd.accepted_names}

\* the production library of the command, after it
ProdAfter == IF fs.prod_sym[cmd.lib_base] = None THEN << >> ELSE fs.prod_sym[cmd.lib_base][1]

\* C24: after cmd_accept every accepted symbol is in the production library
\* and no longer staged; the staged symbols that were not accepted are still
\* staged, unchanged and in their order, and are not put into production; no
\* staged symbol is lost; the staging file is deleted when nothing remains.
C24_AcceptedMoveOthersStay ==
    Accepted =>
        /\ AcceptedNames \subseteq list_symbol_names(ProdAfter)
        /\ AcceptedNames \cap list_symbol_names(StagedAfter) = {}
        /\ StagedAfter = SelectSeq(StagedBefore, LAMBDA s : s.entryName \notin AcceptedNames)
        /\ list_symbol_names(ProdAfter) \subseteq list_symbol_names(ProdBefore) \cup AcceptedNames
        /\ list_symbol_names(StagedBefore)
               \subseteq list_symbol_names(ProdAfter) \cup list_symbol_names(StagedAfter)
        /\ StagedAfter = << >> <=> fs.staging_sym = None

\* "B" went to production and "A" stayed staged as it was
C24_Witness ==
    /\ Accepted
    /\ AcceptedNames = {N_B}
    /\ Len(StagedBefore) = 2
    /\ Len(StagedAfter) = 1
    /\ StagedAfter[1].entryName = N_A
    /\ StagedAfter[1] \in {StagedBefore[i] : i \in DOMAIN StagedBefore}
    /\ N_B \in list_symbol_names(ProdAfter)

\* the footprints the symbol names in the staging library
StagedStems(symbol) ==
    {SubSeq(symbol.properties[i].value, Len(T_staging) + 1, Len(symbol.properties[i].value)) :
        i \in {j \in DOMAIN symbol.properties :
                  /\ Lower(symbol.properties[j].key) = K_footprint
                  /\ StartsWith(symbol.properties[j].value, T_staging)}}

\* the stems of the files of a directory, none when the directory is missing
StemsIn(dir) == IF dir = None THEN {} ELSE {f.stem : f \in dir[1]}

\* C26: after cmd_accept of a part that leaves symbols staged, the footprint
\* file and the 3D model files of every symbol still staged are still in the
\* staging directories.
C26_StagedKeepTheirAssets ==
    (Accepted /\ StagedAfter # << >>) =>
        \A i \in DOMAIN StagedAfter : \A stem \in StagedStems(StagedAfter[i]) :
            /\ stem \in StemsIn(before.staging_pretty) => stem \in StemsIn(fs.staging_pretty)
            /\ stem \in StemsIn(before.staging_3d) => stem \in StemsIn(fs.staging_3d)

----------------------------------------------------------------------------
\* cmd_import has merged the download into the staging library
Merged == cmd.name = "import" /\ cmd.outcome = "running"

\* the names of the downloaded symbols
NewNames == list_symbol_names(cmd.downloaded)

\* the staging library is the symbols staged before whose name the download
\* does not bring, as they were and in their order, and then the download
MergedNewWins ==
    Merged =>
        fs.staging_sym[1] =
            SelectSeq(StagedBefore, LAMBDA s : s.entryName \notin NewNames) \o cmd.downloaded

\* the writes that followed the merge left every symbol of another name as
\* the merge left it and gave the LCSC id to a downloaded symbol
WritesGoToImported ==
    /\ \A j \in DOMAIN before.staging_sym[1] :
           before.staging_sym[1][j].entryName \notin NewNames
               => fs.staging_sym[1][j] = before.staging_sym[1][j]
    /\ \E j \in DOMAIN fs.staging_sym[1] :
           /\ fs.staging_sym[1][j].entryName \in NewNames
           /\ get_symbol_property(fs.staging_sym[1][j], K_LCSC) = Some(cmd.lcsc_id)

\* the writes went to the first symbol of the staging library and left the
\* others as the merge left them
WritesGoToFirst ==
    /\ \A j \in DOMAIN before.staging_sym[1] :
           j # 1 => fs.staging_sym[1][j] = before.staging_sym[1][j]
    /\ get_symbol_property(fs.staging_sym[1][1], K_LCSC) = Some(cmd.lcsc_id)

\* C25 as stated: the downloaded symbol replaces the staged symbol of its
\* name, the staged symbols of other names stay unchanged and in order, and
\* the properties written afterwards go to the symbol just imported, not to
\* another staged symbol.
C25_MergeThenWriteToImported ==
    /\ MergedNewWins
    /\ Imported => WritesGoToImported

\* C25 amended: the same when the downloaded symbol has a name; when its name
\* is empty the properties go to the first symbol of the staging library.
C25_MergeThenWriteToNamed ==
    /\ MergedNewWins
    /\ (Imported /\ Truthy(cmd.imported_symbol_name)) => WritesGoToImported
    /\ (Imported /\ ~Truthy(cmd.imported_symbol_name)) => WritesGoToFirst

\* a downloaded "A" took the place of the staged "A", which had its LCSC id,
\* behind the staged "B"
C25_Witness ==
    /\ Merged
    /\ NewNames = {N_A}
    /\ Len(StagedBefore) = 2
    /\ StagedBefore[1].entryName = N_B
    /\ StagedBefore[2].entryName = N_A
    /\ get_symbol_property(StagedBefore[2], K_LCSC) = Some(cmd.lcsc_id)
    /\ fs.staging_sym[1] = << StagedBefore[1], cmd.downloaded[1] >>
    /\ get_symbol_property(fs.staging_sym[1][2], K_LCSC) = None

====
